---------------------------- MODULE Spec2Model ----------------------------
(***************************************************************************)
(* The time-series reconciliation and caching layer of the Eye of AO       *)
(* dashboard: the response cache and the fetch adapters of api.js          *)
(* (src/unnamed/part_000) and the history store, the reconciler, the       *)
(* series aligner and the chart updates of src/charts.js.                  *)
(*                                                                         *)
(* Time is counted in ticks.  A timestamp is the instant an ISO string or  *)
(* a Date denotes, as a number of ticks since the epoch; MsPerSec ticks    *)
(* make one second (1000 in the program, scaled down here), and a UTC day  *)
(* has 86400 seconds.  All instants of the model are in January 1970.      *)
(***************************************************************************)
EXTENDS Integers, Sequences, FiniteSets, TLC

VARIABLES
    now,            \* Date.now() / new Date(): the wall clock, in ticks
    rec,            \* harness of removeDuplicateDates: its input and its outputs
    al,             \* harness of updateStandardCombinedChart: its two inputs
    adapter,        \* harness of the parsing of fetchRuneRealmStats: the
                    \* BreakdownByDay mapping received and the points made
    historicalData, \* charts.js historicalData: series key -> sequence of points
    charts,         \* charts.js charts: chart key -> chart.data of the instance
    fetched,        \* number of fetch results delivered to the charts so far
    responseCache,  \* api.js responseCache: cache key -> {data, timestamp}
    cleared,        \* what has happened since the last clearCache() of which
                    \* note was taken, if any
    calls,          \* the calls of the fetch functions so far, in the order made
    loaders         \* ui.js chart loaders: series -> busy flag

harnessVars == <<rec, al, adapter>>

storeVars == <<historicalData, charts, fetched>>

cacheVars == <<responseCache, cleared, calls, loaders>>

vars == <<now, rec, al, adapter, historicalData, charts, fetched, responseCache, cleared,
          calls, loaders>>

(***************************************************************************)
(* Bounds and units                                                        *)
(***************************************************************************)
MsPerSec == 2

MaxLen == 3

MsPerDay == 86400 * MsPerSec

MsPerHour == 3600 * MsPerSec

\* item.timestamp is missing (undefined, null or ''): !item.timestamp holds
NoTimestamp == -1

\* count: null, the placeholder of the series aligner
Null == -1

\* a field the source left out (undefined)
Undefined == -2

\* The days points are drawn from: a day of the week before, the two days
\* before today, of today's week, and the day "today" of the model, the last
\* of them (Saturday 17 January 1970).
Days == {9, 14, 15, 16}

Today == CHOOSE d \in Days : \A e \in Days : e <= d

\* The instants points are drawn from: midnight and 14:00 of every day, and
\* for today also half a second and one second past midnight.
Instants ==
    {d * MsPerDay + o : d \in Days, o \in {0, 14 * MsPerHour}}
        \cup {Today * MsPerDay + o : o \in {1, MsPerSec}}

Counts == {1, 2}

DataPoints == [timestamp : Instants, count : Counts]

SeqsUpTo(S, n) == UNION {[1..k -> S] : k \in 0..n}

Max(S) == CHOOSE x \in S : \A y \in S : y <= x

(***************************************************************************)
(* Date arithmetic: what new Date(ts).getUTC...() return                   *)
(***************************************************************************)
\* `${getUTCFullYear()}-${getUTCMonth()+1}-${getUTCDate()}`: the UTC calendar
\* day, named by its day number since the epoch
dateKey(ts) == ts \div MsPerDay

\* getUTCHours() === 0 && getUTCMinutes() === 0 && getUTCSeconds() === 0:
\* the milliseconds are not looked at
isMidnight(ts) == (ts % MsPerDay) \div MsPerSec = 0

\* getUTCDay(): 0 is Sunday; 1 January 1970 was a Thursday
getUTCDay(ts) == (dateKey(ts) + 4) % 7

\* weekStart.setUTCDate(date.getUTCDate() - day); setUTCHours(0, 0, 0, 0);
\* toISOString().split('T')[0]: the day of the Sunday that starts the week
weekStartKey(ts) == dateKey(ts) - getUTCDay(ts)

(***************************************************************************)
(* Array.prototype.sort((a, b) => new Date(a.timestamp) -                 *)
(* new Date(b.timestamp)): a stable sort, ascending by timestamp           *)
(***************************************************************************)
RECURSIVE insertByTimestamp(_, _)
insertByTimestamp(s, p) ==
    IF s = <<>> \/ s[Len(s)].timestamp <= p.timestamp
    THEN Append(s, p)
    ELSE Append(insertByTimestamp(SubSeq(s, 1, Len(s) - 1), p), s[Len(s)])

\* the array as it was built, not sorted
notSorted(s) == s

RECURSIVE sortByTimestamp(_)
sortByTimestamp(s) ==
    IF s = <<>> THEN <<>>
    ELSE insertByTimestamp(sortByTimestamp(SubSeq(s, 1, Len(s) - 1)), s[Len(s)])

RECURSIVE selectSeq(_, _)
selectSeq(s, keep) ==
    IF s = <<>> THEN <<>>
    ELSE LET front == selectSeq(SubSeq(s, 1, Len(s) - 1), keep)
         IN IF s[Len(s)] \in keep THEN Append(front, s[Len(s)]) ELSE front

(***************************************************************************)
(* removeDuplicateDates(data, isWeekly)                                    *)
(***************************************************************************)
\* todayUTC, from new Date()
todayUTC == dateKey(now)

\* data.forEach: items without a timestamp are dropped, the others are split
todayEntriesOf(data) ==
    selectSeq(data, {p \in {data[i] : i \in 1..Len(data)} :
        p.timestamp # NoTimestamp /\ dateKey(p.timestamp) = todayUTC})

otherEntriesOf(data) ==
    selectSeq(data, {p \in {data[i] : i \in 1..Len(data)} :
        p.timestamp # NoTimestamp /\ dateKey(p.timestamp) # todayUTC})

\* todayEntries.forEach: [earliestToday, latestToday], each <<>> (null) or <<item>>
RECURSIVE scanToday(_)
scanToday(todayEntries) ==
    IF todayEntries = <<>> THEN [earliestToday |-> <<>>, latestToday |-> <<>>]
    ELSE LET acc  == scanToday(SubSeq(todayEntries, 1, Len(todayEntries) - 1))
             item == todayEntries[Len(todayEntries)]
         IN IF isMidnight(item.timestamp)
            THEN [acc EXCEPT !.earliestToday = <<item>>]
            ELSE IF acc.latestToday = <<>>
                    \/ item.timestamp > acc.latestToday[1].timestamp
                 THEN [acc EXCEPT !.latestToday = <<item>>]
                 ELSE acc

\* the day as the key, for the weekly series too
dayKeyOnly(item, isWeekly) == dateKey(item.timestamp)

\* the key of an other entry: its week start or its day
bucketKey(item, isWeekly) ==
    IF isWeekly THEN weekStartKey(item.timestamp) ELSE dateKey(item.timestamp)

\* seen.set(key, item): a Map keeps the position of a key it already holds
seenSet(seen, key, item) ==
    IF \E j \in 1..Len(seen) : seen[j].key = key
    THEN [j \in 1..Len(seen) |->
            IF seen[j].key = key THEN [key |-> key, item |-> item] ELSE seen[j]]
    ELSE Append(seen, [key |-> key, item |-> item])

\* otherEntries.forEach, adjacent variant: an entry is dropped only when the
\* entry right before it has the same key
RECURSIVE dedupeAdjacent(_, _)
dedupeAdjacent(otherEntries, isWeekly) ==
    IF otherEntries = <<>> THEN <<>>
    ELSE LET n     == Len(otherEntries)
             front == dedupeAdjacent(SubSeq(otherEntries, 1, n - 1), isWeekly)
             item  == otherEntries[n]
         IN IF n > 1 /\ bucketKey(otherEntries[n - 1], isWeekly) = bucketKey(item, isWeekly)
            THEN front
            ELSE Append(front, [key |-> bucketKey(item, isWeekly), item |-> item])

\* otherEntries.forEach, earliest variant: the comparison is turned round
RECURSIVE dedupeKeepEarliest(_, _)
dedupeKeepEarliest(otherEntries, isWeekly) ==
    IF otherEntries = <<>> THEN <<>>
    ELSE LET seen == dedupeKeepEarliest(
                        SubSeq(otherEntries, 1, Len(otherEntries) - 1), isWeekly)
             item == otherEntries[Len(otherEntries)]
             key  == bucketKey(item, isWeekly)
         IN IF (\A j \in 1..Len(seen) : seen[j].key # key)
               \/ (\E j \in 1..Len(seen) :
                      seen[j].key = key /\ item.timestamp < seen[j].item.timestamp)
            THEN seenSet(seen, key, item)
            ELSE seen

\* otherEntries.forEach: the Map seen, as the sequence of its entries
RECURSIVE dedupeOther(_, _)
dedupeOther(otherEntries, isWeekly) ==
    IF otherEntries = <<>> THEN <<>>
    ELSE LET seen == dedupeOther(
                        SubSeq(otherEntries, 1, Len(otherEntries) - 1), isWeekly)
             item == otherEntries[Len(otherEntries)]
             key  == bucketKey(item, isWeekly)
         IN IF (\A j \in 1..Len(seen) : seen[j].key # key)
               \/ (\E j \in 1..Len(seen) :
                      seen[j].key = key /\ item.timestamp > seen[j].item.timestamp)
            THEN seenSet(seen, key, item)
            ELSE seen

removeDuplicateDates(data, isWeekly) ==
    IF data = <<>> THEN <<>>
    ELSE LET today  == scanToday(todayEntriesOf(data))
             seen   == dedupeOther(otherEntriesOf(data), isWeekly)
             result == [j \in 1..Len(seen) |-> seen[j].item]
                          \o today.earliestToday \o today.latestToday
         IN sortByTimestamp(result)

(***************************************************************************)
(* The history store and the chart instances (charts.js)                   *)
(***************************************************************************)
\* The series of the dashboard.  The standard daily charts fed by
\* fetchProcessData (wARTransfer, AOTransfer, permaswap, botega, llamaLand)
\* run the code wARweeklyTransfer runs, with the granularity of stargrid, and
\* are left out.
SeriesKeys == {"wUSDCTransfer", "USDATransfer", "wARweeklyTransfer",
               "stargrid", "wARTotalSupply", "runeRealm"}

\* the keys initializeCharts creates a chart for
ChartKeys == SeriesKeys \ {"USDATransfer"}

\* the series whose points come from fetchProcessData
ProcessKeys == {"wUSDCTransfer", "USDATransfer", "wARweeklyTransfer"}

\* the number of datasets of each chart: createCombinedChart, createMultiLineChart
\* (the dummy dataset, Low, Medium, High, Total), createSupplyChart,
\* createStandardChart
datasetCount(key) ==
    IF key = "wUSDCTransfer" THEN 2 ELSE IF key = "runeRealm" THEN 5 ELSE 1

\* new Chart(ctx, {data: {labels: [], datasets: [{data: []}, ...]}})
newChart(key) == [labels |-> <<>>, datasets |-> [i \in 1..datasetCount(key) |-> <<>>]]

\* const charts = {}; export const historicalData = {} (a missing key reads
\* as [] through historicalData[key] || [])
noCharts == [k \in {} |-> newChart(k)]

noHistory == [k \in SeriesKeys |-> <<>>]

idleRec == [data |-> <<>>, isWeekly |-> FALSE, once |-> <<>>, twice |-> <<>>,
            stage |-> "idle"]

idleAl == [primaryData |-> <<>>, secondaryData |-> <<>>, stage |-> "idle"]

idleAdapter == [raw |-> <<>>, streakData |-> <<>>, stage |-> "idle"]

\* const responseCache = new Map(); no call made; every loader hidden
noCache == [k \in {} |-> [data |-> <<>>, timestamp |-> 0]]

\* clearCache() has not run (ran); since it last ran, no entry has been
\* written (written) and no fetch function has been called for any key (called)
neverCleared == [ran |-> FALSE, written |-> FALSE, called |-> {}]

LoaderKeys == {"stargrid", "runeRealm"}

\* the chart functions that await a fetch function, and the loader of the
\* series each updates
ChartCallers == {"updateStargridChart", "updateRuneRealmChart"}

loaderOf(caller) == IF caller = "updateStargridChart" THEN "stargrid" ELSE "runeRealm"

noFetching ==
    /\ responseCache = noCache
    /\ cleared = neverCleared
    /\ calls = <<>>
    /\ loaders = [k \in LoaderKeys |-> FALSE]

TimeRanges == {"7d", "all"}

\* utils.js filterDataByTimeRange: the points within [now - window, now];
\* 'all' returns the input
filterDataByTimeRange(data, timeRange) ==
    IF timeRange = "all" THEN data
    ELSE selectSeq(data, {p \in {data[i] : i \in 1..Len(data)} :
            p.timestamp >= now - 7 * MsPerDay /\ p.timestamp <= now})

\* utils.js formatDate(date) and formatDateUTCWithLocalTime(date): the text of
\* a label, which names the instant it was made from
formatDate(ts) == <<"date", ts>>

formatDateUTCWithLocalTime(ts) == <<"utc", ts>>

\* The offsets of the time zones a page runs in, local time minus UTC: UTC
\* and Pacific Standard Time.
TimeZones == {0, 0 - 8 * MsPerHour}

\* the month (1..12) and the day of the month of a day number since the
\* epoch, in the proleptic Gregorian calendar
monthDayOf(dayNumber) ==
    LET z   == dayNumber + 719468
        era == z \div 146097
        doe == z - era * 146097
        yoe == (doe - doe \div 1460 + doe \div 36524 - doe \div 146096) \div 365
        doy == doe - (365 * yoe + yoe \div 4 - yoe \div 100)
        mp  == (5 * doy + 2) \div 153
    IN <<IF mp < 10 THEN mp + 3 ELSE mp - 9, doy - (153 * mp + 2) \div 5 + 1>>

\* `${month} ${day}` of updateRuneRealmChart, month being
\* date.toLocaleString('default', { month: 'short' }) and day date.getDate():
\* the month and the day of the month in the time zone of the page, without
\* the year
formatMonthDay(ts, zone) == <<"month day">> \o monthDayOf((ts + zone) \div MsPerDay)

\* updateStandardChart(processName, dataPoints), on the pair st = [h, c] of
\* historicalData and charts
updateStandardChart(st, processName, dataPoints) ==
    IF processName \notin DOMAIN st.c THEN st
    ELSE LET sortedData == sortByTimestamp(dataPoints)
             labels == [i \in 1..Len(sortedData) |->
                          IF processName = "stargrid"
                          THEN formatDateUTCWithLocalTime(sortedData[i].timestamp)
                          ELSE formatDate(sortedData[i].timestamp)]
             values == [i \in 1..Len(sortedData) |->
                          IF "count" \in DOMAIN sortedData[i]
                          THEN sortedData[i].count ELSE Undefined]
         IN [h |-> [st.h EXCEPT ![processName] = sortedData],
             c |-> [st.c EXCEPT ![processName] =
                        [labels |-> labels,
                         datasets |-> [@.datasets EXCEPT ![1] = values]]]]

\* [...new Set(allTimestamps)]: the first occurrence of every value, in order
RECURSIVE distinctOf(_)
distinctOf(s) ==
    IF s = <<>> THEN <<>>
    ELSE LET front == distinctOf(SubSeq(s, 1, Len(s) - 1))
         IN IF \E j \in 1..Len(front) : front[j] = s[Len(s)]
            THEN front ELSE Append(front, s[Len(s)])

\* .sort((a, b) => new Date(a) - new Date(b)) on timestamps
RECURSIVE insertInstant(_, _)
insertInstant(s, t) ==
    IF s = <<>> \/ s[Len(s)] <= t THEN Append(s, t)
    ELSE Append(insertInstant(SubSeq(s, 1, Len(s) - 1), t), s[Len(s)])

RECURSIVE sortInstants(_)
sortInstants(s) ==
    IF s = <<>> THEN <<>>
    ELSE insertInstant(sortInstants(SubSeq(s, 1, Len(s) - 1)), s[Len(s)])

\* the timeline without new Set(): a timestamp of both series comes twice
allTimestampsOf(primaryData, secondaryData) ==
    sortInstants(
        [i \in 1..Len(primaryData) |-> primaryData[i].timestamp]
            \o [i \in 1..Len(secondaryData) |-> secondaryData[i].timestamp])

uniqueTimestampsOf(primaryData, secondaryData) ==
    sortInstants(distinctOf(
        [i \in 1..Len(primaryData) |-> primaryData[i].timestamp]
            \o [i \in 1..Len(secondaryData) |-> secondaryData[i].timestamp]))

\* data.find(d => d.timestamp === timestamp): <<>> or the first such point
findPoint(data, timestamp) ==
    LET hits == {i \in 1..Len(data) : data[i].timestamp = timestamp}
    IN IF hits = {} THEN <<>>
       ELSE <<data[CHOOSE i \in hits : \A j \in hits : i <= j]>>

\* primaryValues / secondaryValues: point ? point.count : null
alignedValues(uniqueTimestamps, data) ==
    [i \in 1..Len(uniqueTimestamps) |->
        LET point == findPoint(data, uniqueTimestamps[i])
        IN IF point = <<>> THEN Null ELSE point[1].count]

\* alignedPrimaryData / alignedSecondaryData: point || { timestamp, count: null }
alignedData(uniqueTimestamps, data) ==
    [i \in 1..Len(uniqueTimestamps) |->
        LET point == findPoint(data, uniqueTimestamps[i])
        IN IF point = <<>>
           THEN [timestamp |-> uniqueTimestamps[i], count |-> Null]
           ELSE point[1]]

\* updateStandardCombinedChart(chart, primaryProcess, secondaryProcess,
\* primaryData, secondaryData), chart being charts[primaryProcess]
updateStandardCombinedChart(st, primaryProcess, secondaryProcess, primaryData, secondaryData) ==
    LET uniqueTimestamps == uniqueTimestampsOf(primaryData, secondaryData)
        labels == [i \in 1..Len(uniqueTimestamps) |-> formatDate(uniqueTimestamps[i])]
    IN [h |-> [st.h EXCEPT
                  ![primaryProcess] = alignedData(uniqueTimestamps, primaryData),
                  ![secondaryProcess] = alignedData(uniqueTimestamps, secondaryData)],
        c |-> [st.c EXCEPT ![primaryProcess] =
                  [labels |-> labels,
                   datasets |-> <<alignedValues(uniqueTimestamps, primaryData),
                                  alignedValues(uniqueTimestamps, secondaryData)>>]]]

\* updateCombinedChart(primaryProcess, secondaryProcess, timeRange)
updateCombinedChart(st, primaryProcess, secondaryProcess, timeRange) ==
    IF primaryProcess \notin DOMAIN st.c THEN st
    ELSE IF st.h[primaryProcess] = <<>> /\ st.h[secondaryProcess] = <<>> THEN st
    ELSE updateStandardCombinedChart(st, primaryProcess, secondaryProcess,
            filterDataByTimeRange(st.h[primaryProcess], timeRange),
            filterDataByTimeRange(st.h[secondaryProcess], timeRange))

\* updateSupplyChart(supplyData, timeRange)
updateSupplyChart(st, supplyData, timeRange) ==
    IF "wARTotalSupply" \notin DOMAIN st.c THEN st
    ELSE IF supplyData = <<>> THEN st
    ELSE LET sortedData == sortByTimestamp(filterDataByTimeRange(supplyData, timeRange))
         IN [st EXCEPT !.c["wARTotalSupply"] =
                [labels |-> [i \in 1..Len(sortedData) |->
                                formatDate(sortedData[i].timestamp)],
                 datasets |-> <<[i \in 1..Len(sortedData) |-> sortedData[i].wARSupply]>>]]

\* processName.includes('weekly')
includesWeekly(processName) == processName = "wARweeklyTransfer"

\* updateChartTimeRange(processName, timeRange)
updateChartTimeRange(st, processName, timeRange) ==
    LET data == sortByTimestamp(st.h[processName])
        filteredData == removeDuplicateDates(data, includesWeekly(processName))
        stored == [st EXCEPT !.h[processName] = filteredData]
    IN IF processName = "wUSDCTransfer"
       THEN updateCombinedChart(stored, "wUSDCTransfer", "USDATransfer", timeRange)
       ELSE IF processName = "wARTotalSupply"
       THEN updateSupplyChart(stored, stored.h[processName], timeRange)
       ELSE updateStandardChart(stored, processName,
                filterDataByTimeRange(filteredData, timeRange))


\* d.breakdowns.X !== undefined ? d.breakdowns.X : 0
orZero(x) == IF x # Undefined THEN x ELSE 0

\* the part of updateRuneRealmChart that follows the await of
\* fetchRuneRealmStats, up to chart.update; timeRange is what
\* getChartTimeRange('runeRealm') returns, zone the time zone of the page
runeRealmResolved(st, runeRealmData, timeRange, zone) ==
    LET stored == [st EXCEPT !.h["runeRealm"] = runeRealmData]
    IN IF "runeRealm" \notin DOMAIN st.c THEN stored
       ELSE LET sortedData == sortByTimestamp(runeRealmData)
                filtered == filterDataByTimeRange(sortedData, timeRange)
                filteredData == IF Len(sortedData) > 3 /\ Len(filtered) > 0
                                THEN filtered ELSE sortedData
                n == Len(filteredData)
                b(i) == filteredData[i].breakdowns
            IN [stored EXCEPT !.c["runeRealm"] =
                  [labels |-> [i \in 1..n |->
                                 formatMonthDay(filteredData[i].timestamp, zone)],
                   datasets |->
                      << [i \in 1..n |-> 0],
                         [i \in 1..n |-> orZero(b(i).Low)],
                         [i \in 1..n |-> orZero(b(i).Medium)],
                         [i \in 1..n |-> orZero(b(i).High)],
                         [i \in 1..n |->
                            orZero(b(i).Low) + orZero(b(i).Medium) + orZero(b(i).High)] >>]]

\* the fetched points are stored and the function is left before it
\* reconciles them
stargridStoredOnly(st, stargridData, timeRange) ==
    [st EXCEPT !.h["stargrid"] = stargridData]

\* the part of updateStargridChart that follows the await of fetchStargridStats;
\* new Date(entry.timestamp).toISOString() leaves an ISO timestamp as it is
stargridResolved(st, stargridData, timeRange) ==
    updateChartTimeRange([st EXCEPT !.h["stargrid"] = stargridData],
                         "stargrid", timeRange)

(***************************************************************************)
(* What the fetches deliver to the store                                   *)
(***************************************************************************)
MaxFetches == 2

MaxFetched == 2

MaxTicks == 1

\* the points fetches deliver to the store
StoreInstants == {9 * MsPerDay + 14 * MsPerHour, 15 * MsPerDay,
                  15 * MsPerDay + 14 * MsPerHour,
                  Today * MsPerDay + 14 * MsPerHour}

StorePoints == [timestamp : StoreInstants, count : {1}]

SupplyPoints == [timestamp : {9 * MsPerDay, 15 * MsPerDay, Today * MsPerDay},
                 wARSupply : {5}]

\* what fetchStargridStats returns: sorted by timestamp
StargridResults == {s \in SeqsUpTo(StorePoints, MaxFetched) : sortByTimestamp(s) = s}

\* what fetchRuneRealmStats returns: one point per day of the mapping, sorted
RuneDays == {6, 7, 8, 9, 15, 16}

runePoint(d) == [timestamp |-> d * MsPerDay, day |-> d,
                 breakdowns |-> [Low |-> 1, Medium |-> 0, High |-> d % 3]]

RECURSIVE runePoints(_)
runePoints(S) ==
    IF S = {} THEN <<>>
    ELSE LET d == Max(S) IN Append(runePoints(S \ {d}), runePoint(d))

\* the sets of days a result has a point for: none, one day, three days of
\* which one is older than a week, four days all older than a week, and all
RuneDaySets == {{}, {15}, {9, 15, 16}, {6, 7, 8, 9}, RuneDays}

RuneRealmResults == {runePoints(S) : S \in RuneDaySets}

StartOfModel == Today * MsPerDay + 15 * MsPerHour

state == [h |-> historicalData, c |-> charts]

becomes(st) == historicalData' = st.h /\ charts' = st.c



(***************************************************************************)
(* The response cache and the fetch functions (api.js)                     *)
(***************************************************************************)
SimpleOps == {"fetchNetworkInfo", "fetchBlockHistory", "fetchSupplyHistory",
              "fetchRuneRealmStats", "fetchStargridStats"}

\* cacheKey of the functions without arguments
cacheKeyOf(op) ==
    CASE op = "fetchNetworkInfo" -> <<"network-info">>
      [] op = "fetchBlockHistory" -> <<"block-history">>
      [] op = "fetchSupplyHistory" -> <<"supply-history">>
      [] op = "fetchRuneRealmStats" -> <<"runerealm-stats">>
      [] op = "fetchStargridStats" -> <<"stargrid-history">>

\* `${processName}-${JSON.stringify(periods.map(p => p.startHeight + '-' + p.endHeight))}`
processCacheKey(processName, periods) ==
    <<processName, [i \in 1..Len(periods) |->
                      <<periods[i].startHeight, periods[i].endHeight>>]>>

\* one lifetime for every function, the longest
ttlLongest(op) == 30 * 60 * MsPerSec

\* the age below which each function uses its cached data
ttlOf(op) ==
    CASE op = "fetchNetworkInfo" -> 5 * 60 * MsPerSec
      [] op = "fetchBlockHistory" -> 15 * 60 * MsPerSec
      [] op = "fetchSupplyHistory" -> 30 * 60 * MsPerSec
      [] op = "fetchProcessData" -> 10 * 60 * MsPerSec
      [] op = "fetchRuneRealmStats" -> 20 * 60 * MsPerSec
      [] op = "fetchStargridStats" -> 15 * 60 * MsPerSec

\* responseCache.has(cacheKey) && Date.now() - timestamp < ttl
isFresh(op, key) ==
    /\ key \in DOMAIN responseCache
    /\ now - responseCache[key].timestamp < ttlOf(op)

\* a set that leaves an existing entry alone
cacheSetIfAbsent(key, data) ==
    [k \in DOMAIN responseCache \cup {key} |->
        IF k \in DOMAIN responseCache THEN responseCache[k]
        ELSE [data |-> data, timestamp |-> now]]

\* a set that also stamps every other entry anew
cacheSetStampingAll(key, data) ==
    [k \in DOMAIN responseCache \cup {key} |->
        IF k = key THEN [data |-> data, timestamp |-> now]
        ELSE [responseCache[k] EXCEPT !.timestamp = now]]

\* responseCache.set(cacheKey, { data, timestamp: Date.now() })
cacheSet(key, data) ==
    [k \in DOMAIN responseCache \cup {key} |->
        IF k = key THEN [data |-> data, timestamp |-> now] ELSE responseCache[k]]

\* what the request of call id parses to when it succeeds: the upstream
\* answers every request with data of its own
responseOf(op, id) ==
    CASE op = "fetchStargridStats" ->
            <<[timestamp |-> Today * MsPerDay + 14 * MsPerHour, count |-> id]>>
      [] op = "fetchRuneRealmStats" ->
            <<[runePoint(15) EXCEPT !.breakdowns.Low = id]>>
      [] OTHER -> [version |-> id]

\* the functions that read their data from a tag of the first message:
\* DailyBlocks, DailySupply, DailyStats
TagOps == {"fetchBlockHistory", "fetchSupplyHistory", "fetchStargridStats"}

\* the ways a request of the argument-less functions can end: data; a
\* transport failure or a non-2xx status; a response without the first
\* message or whose data do not parse; for the functions of TagOps, a first
\* message without the expected tag
Outcomes == {"ok", "network_error", "malformed", "missing_tag"}

outcomesOf(op) == IF op \in TagOps THEN Outcomes ELSE Outcomes \ {"missing_tag"}

\* only a failing transport makes the function throw
throwsOnTransport(op, outcome) == outcome = "network_error"

\* the function throws, by its own throw or by the TypeError or SyntaxError
\* of reading what is not there, unless the response has the data
throws(op, outcome) == outcome # "ok"

\* the calls that have neither returned nor thrown
inFlight == {j \in 1..Len(calls) : calls[j].pc \notin {"returned", "thrown"}}

doneCount == Len(calls) - Cardinality(inFlight)

\* the part of a call record only fetchProcessData uses
noBatch == [periods |-> <<>>, i |-> 0, started |-> {}, chunkResults |-> <<>>,
            results |-> <<>>, delays |-> 0, chunks |-> <<>>, outcomes |-> <<>>,
            failuresLeft |-> 0]

\* a fetch function has been called for key
calledFor(key) ==
    cleared' = [cleared EXCEPT !.called = IF cleared.ran THEN @ \cup {key} ELSE @]

\* the body of a fetch function up to its first await: the cached data is
\* returned, or the request is sent.  batch is the state of the chunk loop.
\* A chart function that calls it is suspended at its await of the call
\* until it resumes.
enterFetch(op, caller, key, batch) ==
    LET has == key \in DOMAIN responseCache
        hit == isFresh(op, key)
    IN [op |-> op, caller |-> caller, key |-> key,
        pc |-> IF hit THEN "returned" ELSE "awaiting",
        outcome |-> "none",
        nextAfterClear |-> cleared.ran /\ key \notin cleared.called,
        entryAge |-> IF has THEN now - responseCache[key].timestamp ELSE -1,
        served |-> IF hit THEN "cache" ELSE "none",
        data |-> IF hit THEN <<responseCache[key].data>> ELSE <<>>,
        doneSeq |-> IF hit THEN doneCount + 1 ELSE 0,
        overlapped |-> {j \in inFlight : calls[j].key = key /\ calls[j].pc # "importing"},
        suspended |-> caller \in ChartCallers,
        batch |-> batch]

\* the callers without their catch blocks: a failed fetch leaves the loader
\* as it is
afterFetchUncaught(caller, ok, data, timeRange, zone) ==
    CASE caller = "updateStargridChart" /\ ok ->
            /\ becomes(stargridResolved(state, data, timeRange))
            /\ loaders' = [loaders EXCEPT !["stargrid"] = FALSE]
      [] caller = "updateRuneRealmChart" /\ ok ->
            /\ becomes(runeRealmResolved(state, data, timeRange, zone))
            /\ loaders' = [loaders EXCEPT !["runeRealm"] =
                              IF "runeRealm" \notin DOMAIN charts
                              THEN loaders["runeRealm"] ELSE FALSE]
      [] OTHER -> UNCHANGED <<historicalData, charts, loaders>>

\* what the caller of a fetch function does once the function has returned
\* data (ok) or thrown: the rest of updateStargridChart and of
\* updateRuneRealmChart
afterFetch(caller, ok, data, timeRange, zone) ==
    CASE caller = "updateStargridChart" ->
            /\ IF ok THEN becomes(stargridResolved(state, data, timeRange))
                     ELSE UNCHANGED <<historicalData, charts>>
            /\ loaders' = [loaders EXCEPT !["stargrid"] = FALSE]
      [] caller = "updateRuneRealmChart" ->
            /\ IF ok THEN becomes(runeRealmResolved(state, data, timeRange, zone))
                     ELSE UNCHANGED <<historicalData, charts>>
            /\ loaders' = [loaders EXCEPT !["runeRealm"] =
                              IF ok /\ "runeRealm" \notin DOMAIN charts
                              THEN loaders["runeRealm"] ELSE FALSE]
      [] OTHER -> UNCHANGED <<historicalData, charts, loaders>>

MaxCalls == 2

\* a fetch function is called: by caller, with the loader of the caller shown
\* before the call.  The function returns the cached data or sends its
\* request, and the caller yields at its await either way.
startFetch(op, caller, shown) ==
    /\ Len(calls) < MaxCalls
    /\ calls' = Append(calls, enterFetch(op, caller, cacheKeyOf(op), noBatch))
    /\ loaders' = [k \in LoaderKeys |-> loaders[k] \/ k \in shown]
    /\ calledFor(cacheKeyOf(op))
    /\ UNCHANGED <<now, harnessVars, storeVars, responseCache>>

fetchNetworkInfo == startFetch("fetchNetworkInfo", "index", {})

fetchBlockHistory == startFetch("fetchBlockHistory", "index", {})

fetchSupplyHistory == startFetch("fetchSupplyHistory", "index", {})

fetchRuneRealmStats == startFetch("fetchRuneRealmStats", "index", {})

fetchStargridStats == startFetch("fetchStargridStats", "index", {})

\* updateStargridChart(): toggleChartLoader('stargrid', true) and the call of
\* fetchStargridStats
updateStargridChart ==
    startFetch("fetchStargridStats", "updateStargridChart", {"stargrid"})

\* updateRuneRealmChart(): toggleChartLoader('runeRealm', true), then the
\* await of import('./api.js')
updateRuneRealmChart ==
    /\ Len(calls) < MaxCalls
    /\ calls' = Append(calls,
          [enterFetch("fetchRuneRealmStats", "updateRuneRealmChart",
                      cacheKeyOf("fetchRuneRealmStats"), noBatch)
              EXCEPT !.pc = "importing",
                     !.nextAfterClear = FALSE, !.entryAge = -1, !.served = "none",
                     !.data = <<>>, !.doneSeq = 0, !.overlapped = {}])
    /\ loaders' = [loaders EXCEPT !["runeRealm"] = TRUE]
    /\ UNCHANGED <<now, harnessVars, storeVars, responseCache, cleared>>

\* the module is imported: fetchRuneRealmStats is called, and
\* updateRuneRealmChart yields at its await of the call
runeRealmImported ==
    \E id \in 1..Len(calls) :
        /\ calls[id].pc = "importing"
        /\ calls' = [calls EXCEPT ![id] =
              enterFetch("fetchRuneRealmStats", "updateRuneRealmChart",
                         cacheKeyOf("fetchRuneRealmStats"), noBatch)]
        /\ calledFor(cacheKeyOf("fetchRuneRealmStats"))
        /\ UNCHANGED <<now, harnessVars, storeVars, responseCache, loaders>>

\* the request of call id ends with outcome, data being what the response
\* parses to: the data are cached and returned, or the call throws.  A chart
\* function that awaits the call resumes in a later step.
requestEnds(id, outcome, data) ==
    LET call == calls[id]
    IN /\ IF ~throws(call.op, outcome)
          THEN /\ responseCache' = cacheSet(call.key, data)
               /\ cleared' = [cleared EXCEPT !.written = cleared.ran]
               /\ calls' = [calls EXCEPT ![id] =
                     [call EXCEPT !.pc = "returned", !.served = "network",
                                  !.outcome = outcome,
                                  !.data = <<data>>, !.doneSeq = doneCount + 1]]
          ELSE /\ calls' = [calls EXCEPT ![id] =
                     [call EXCEPT !.pc = "thrown", !.outcome = outcome,
                                  !.doneSeq = doneCount + 1]]
               /\ UNCHANGED <<responseCache, cleared>>
       /\ UNCHANGED <<now, harnessVars, storeVars, loaders>>

\* the request of a call of the functions without arguments ends, in any of
\* the ways it can; the upstream answers every request with data of its own
fetchSettles ==
    \E id \in 1..Len(calls) :
        /\ calls[id].pc = "awaiting"
        /\ calls[id].op \in SimpleOps
        /\ \E outcome \in outcomesOf(calls[id].op) :
              requestEnds(id, outcome, responseOf(calls[id].op, id))

\* the calls whose fetch function has returned or thrown while the chart
\* function that awaits them has not yet resumed
toResume ==
    {j \in 1..Len(calls) : calls[j].suspended /\ calls[j].pc \in {"returned", "thrown"}}

\* a chart function resumes from its await of a fetch function, with the
\* data returned or in its catch block, and runs to its end.  The
\* continuations run in the order in which the awaited calls ended.
callerResumes(caller) ==
    \E id \in toResume :
        /\ calls[id].caller = caller
        /\ \A j \in toResume : calls[id].doneSeq <= calls[j].doneSeq
        /\ calls' = [calls EXCEPT ![id].suspended = FALSE]
        /\ IF calls[id].pc = "returned"
           THEN \E timeRange \in TimeRanges, zone \in TimeZones :
                   afterFetch(caller, TRUE, calls[id].data[1], timeRange, zone)
           ELSE afterFetch(caller, FALSE, <<>>, "all", 0)
        /\ UNCHANGED <<now, harnessVars, fetched, responseCache, cleared>>

\* updateStargridChart after its await of fetchStargridStats()
stargridChartResumes == callerResumes("updateStargridChart")

\* updateRuneRealmChart after its await of fetchRuneRealmStats()
runeRealmChartResumes == callerResumes("updateRuneRealmChart")

\* responseCache.clear()
dropEntries == responseCache' = noCache

\* clearCache()
clearCache ==
    /\ dropEntries
    /\ UNCHANGED <<now, harnessVars, storeVars, cleared, calls, loaders>>

\* clearCache(), with note taken in cleared of what follows it
clearCacheNoted ==
    /\ dropEntries
    /\ cleared' = [ran |-> TRUE, written |-> FALSE, called |-> {}]
    /\ UNCHANGED <<now, harnessVars, storeVars, calls, loaders>>


(***************************************************************************)
(* The store under fetch results and chart updates: a step is the run of   *)
(* a function from one await to the next                                   *)
(***************************************************************************)
\* The sets of canvases a page can have: all of them, or all but the one of
\* the rune realm chart.
Pages == {ChartKeys, ChartKeys \ {"runeRealm"}}

InitStore ==
    /\ adapter = idleAdapter
    /\ now = StartOfModel
    /\ rec = idleRec
    /\ al = idleAl
    /\ historicalData = noHistory
    /\ charts = noCharts
    /\ fetched = 0
    /\ noFetching

\* initializeCharts(): every chart whose canvas is in the page is created
\* anew; the create functions return null for a missing canvas
initializeCharts ==
    /\ \E page \in Pages : charts' = [k \in page |-> newChart(k)]
    /\ UNCHANGED <<now, harnessVars, historicalData, fetched, cacheVars>>

\* index.js: a fetchProcessData result is stored under its series and the
\* series is reconciled and drawn; at most MaxFetches fetches are made, by
\* index.js and by the chart functions together
processDataFetched ==
    /\ fetched + Len(calls) < MaxFetches
    /\ \E k \in ProcessKeys, points \in SeqsUpTo(StorePoints, MaxFetched),
          timeRange \in TimeRanges :
          becomes(updateChartTimeRange([state EXCEPT !.h[k] = points], k, timeRange))
    /\ fetched' = fetched + 1
    /\ UNCHANGED <<now, harnessVars, cacheVars>>

\* index.js: the supply history is stored and drawn
supplyFetched ==
    /\ fetched + Len(calls) < MaxFetches
    /\ \E points \in SeqsUpTo(SupplyPoints, MaxFetched), timeRange \in TimeRanges :
          becomes(updateChartTimeRange(
                      [state EXCEPT !.h["wARTotalSupply"] = points],
                      "wARTotalSupply", timeRange))
    /\ fetched' = fetched + 1
    /\ UNCHANGED <<now, harnessVars, cacheVars>>

\* the request of fetchStargridStats made by updateStargridChart ends, with
\* data or with a failure: the rest of fetchStargridStats
stargridFetched ==
    \E id \in 1..Len(calls) :
        /\ calls[id].pc = "awaiting"
        /\ calls[id].caller = "updateStargridChart"
        /\ \/ \E data \in StargridResults : requestEnds(id, "ok", data)
           \/ \E outcome \in outcomesOf(calls[id].op) \ {"ok"} :
                 requestEnds(id, outcome, <<>>)

\* the request of fetchRuneRealmStats made by updateRuneRealmChart ends, with
\* data or with a failure: the rest of fetchRuneRealmStats
runeRealmFetched ==
    \E id \in 1..Len(calls) :
        /\ calls[id].pc = "awaiting"
        /\ calls[id].caller = "updateRuneRealmChart"
        /\ \/ \E data \in RuneRealmResults : requestEnds(id, "ok", data)
           \/ \E outcome \in outcomesOf(calls[id].op) \ {"ok"} :
                 requestEnds(id, outcome, <<>>)

\* updateChartTimeRange called with the key of any series, the rune realm
\* series among them
callUpdateChartTimeRange ==
    /\ \E k \in SeriesKeys, timeRange \in TimeRanges :
          becomes(updateChartTimeRange(state, k, timeRange))
    /\ UNCHANGED <<now, harnessVars, fetched, cacheVars>>

\* updateStandardChart called with a time-range view of the series
callUpdateStandardChart ==
    /\ \E k \in {"wARweeklyTransfer", "stargrid"},
          timeRange \in TimeRanges :
          becomes(updateStandardChart(state, k,
                      filterDataByTimeRange(historicalData[k], timeRange)))
    /\ UNCHANGED <<now, harnessVars, fetched, cacheVars>>

callUpdateCombinedChart ==
    /\ \E timeRange \in TimeRanges :
          becomes(updateCombinedChart(state, "wUSDCTransfer", "USDATransfer", timeRange))
    /\ UNCHANGED <<now, harnessVars, fetched, cacheVars>>

callUpdateSupplyChart ==
    /\ \E timeRange \in TimeRanges :
          becomes(updateSupplyChart(state, historicalData["wARTotalSupply"], timeRange))
    /\ UNCHANGED <<now, harnessVars, fetched, cacheVars>>

\* the clock advances, within the day
tick ==
    /\ now < StartOfModel + MaxTicks * MsPerHour
    /\ now' = now + MsPerHour
    /\ UNCHANGED <<harnessVars, storeVars, cacheVars>>

NextStore ==
    \/ initializeCharts
    \/ processDataFetched
    \/ supplyFetched
    \/ fetched + Len(calls) < MaxFetches /\ updateStargridChart
    \/ fetched + Len(calls) < MaxFetches /\ updateRuneRealmChart
    \/ runeRealmImported
    \/ stargridFetched
    \/ runeRealmFetched
    \/ stargridChartResumes
    \/ runeRealmChartResumes
    \/ callUpdateChartTimeRange
    \/ callUpdateStandardChart
    \/ callUpdateCombinedChart
    \/ callUpdateSupplyChart
    \/ tick

SpecStore == InitStore /\ [][NextStore]_vars


(***************************************************************************)
(* fetchProcessData(processName, periods, currentHeight)                   *)
(***************************************************************************)
CHUNK_SIZE == 5

\* the periods of a call: consecutive block ranges, one per day up to today
periodsOf(n) ==
    [i \in 1..n |-> [startHeight |-> i, endHeight |-> i + 1,
                     endTime |-> (Today - n + i) * MsPerDay]]

\* the ways the request of one period can end: a count; generateQuery
\* rejects; fetch rejects; a non-2xx status; a body that is no JSON; a body
\* with an errors field; a body without data.transactions; a body whose
\* data.transactions has no count
PeriodOutcomes == {"ok", "query_error", "transport_error", "non2xx", "bad_json",
                   "graphql_errors", "no_transactions", "no_count"}

\* result.data.transactions.count of the period at index idx when upstream
\* answers
upstreamCount(idx) == idx

\* what the callback of chunk.map returns for a period
periodPoint(period, idx, outcome) ==
    [timestamp |-> period.endTime,
     count |-> CASE outcome = "ok" -> upstreamCount(idx)
                 [] outcome = "no_count" -> Undefined
                 [] OTHER -> 0]

\* a slice one period longer than the chunk size
chunkOfSix(i, n) == {idx \in 1..n : i < idx /\ idx <= i + CHUNK_SIZE + 1}

\* the indices periods.slice(i, i + CHUNK_SIZE) covers
chunkAt(i, n) == {idx \in 1..n : i < idx /\ idx <= i + CHUNK_SIZE}

\* a delay after every chunk, the last one too
delayAlways(i, n) == i < n

\* if (i + CHUNK_SIZE < periods.length): another chunk follows
delayDue(i, n) == i + CHUNK_SIZE < n

\* the body of fetchProcessData up to its first await: the cached data, or
\* the first chunk of requests, all started
startProcessData(processName, n, failures) ==
    /\ Len(calls) < MaxCalls
    /\ LET periods == periodsOf(n)
           key == processCacheKey(processName, periods)
           call == enterFetch("fetchProcessData", "index", key,
                      [noBatch EXCEPT !.periods = periods, !.failuresLeft = failures])
       IN calls' = Append(calls,
             IF call.pc = "returned" THEN call
             ELSE [call EXCEPT !.pc = "chunk",
                               !.batch.started = chunkAt(0, n),
                               !.batch.chunks = <<Cardinality(chunkAt(0, n))>>])
    /\ calledFor(processCacheKey(processName, periodsOf(n)))
    /\ UNCHANGED <<now, harnessVars, storeVars, responseCache, loaders>>

\* the request of one period of the chunk in progress ends
periodSettles ==
    \E id \in 1..Len(calls) :
        /\ calls[id].pc = "chunk"
        /\ \E idx \in calls[id].batch.started \ DOMAIN calls[id].batch.outcomes,
              outcome \in PeriodOutcomes :
              /\ outcome # "ok" => calls[id].batch.failuresLeft > 0
              /\ LET b == calls[id].batch
                     add(f, v) == [k \in DOMAIN f \cup {idx} |->
                                      IF k = idx THEN v ELSE f[k]]
                 IN calls' = [calls EXCEPT ![id].batch =
                       [b EXCEPT
                          !.chunkResults =
                              add(b.chunkResults,
                                  periodPoint(b.periods[idx], idx, outcome)),
                          !.outcomes = add(b.outcomes, outcome),
                          !.failuresLeft = IF outcome = "ok" THEN @ ELSE @ - 1]]
        /\ UNCHANGED <<now, harnessVars, storeVars, responseCache, cleared, loaders>>

\* the end of the loop: the results are cached and returned
returnResults(id, b) ==
    /\ responseCache' = cacheSet(calls[id].key, b.results)
    /\ cleared' = [cleared EXCEPT !.written = cleared.ran]
    /\ calls' = [calls EXCEPT ![id] =
          [calls[id] EXCEPT !.pc = "returned", !.served = "network",
                            !.data = <<b.results>>, !.doneSeq = doneCount + 1,
                            !.batch = b]]

\* the requests of chunk.map(...) not yet ended
pendingOf(b) == {idx \in chunkAt(b.i, Len(b.periods)) : idx \notin DOMAIN b.outcomes}

\* Promise.all of the chunk resolves: results.push(...chunkResults), then the
\* delay, or the end of the loop
chunkDone ==
    \E id \in 1..Len(calls) :
        /\ calls[id].pc = "chunk"
        /\ pendingOf(calls[id].batch) = {}
        /\ LET b == calls[id].batch
               n == Len(b.periods)
               pushed == [b EXCEPT !.results =
                            @ \o [k \in 1..Cardinality(chunkAt(b.i, n)) |->
                                    b.chunkResults[b.i + k]]]
           IN IF delayDue(b.i, n)
              THEN /\ calls' = [calls EXCEPT ![id].pc = "delay",
                                             ![id].batch =
                                                [pushed EXCEPT !.delays = @ + 1]]
                   /\ UNCHANGED <<responseCache, cleared>>
              ELSE IF b.i + CHUNK_SIZE < n
              THEN /\ calls' = [calls EXCEPT ![id].batch =
                         [pushed EXCEPT
                            !.i = @ + CHUNK_SIZE,
                            !.started = @ \cup chunkAt(b.i + CHUNK_SIZE, n),
                            !.chunks = Append(@,
                                Cardinality(chunkAt(b.i + CHUNK_SIZE, n)))]]
                   /\ UNCHANGED <<responseCache, cleared>>
              ELSE returnResults(id, [pushed EXCEPT !.i = @ + CHUNK_SIZE])
        /\ UNCHANGED <<now, harnessVars, storeVars, loaders>>

\* setTimeout(resolve, 100) fires: i += CHUNK_SIZE and the next chunk, or the
\* end of the loop
delayElapsed ==
    \E id \in 1..Len(calls) :
        /\ calls[id].pc = "delay"
        /\ LET b == calls[id].batch
               n == Len(b.periods)
               i == b.i + CHUNK_SIZE
           IN IF i < n
              THEN /\ calls' = [calls EXCEPT ![id].pc = "chunk",
                                             ![id].batch =
                         [b EXCEPT !.i = i,
                                   !.started = @ \cup chunkAt(i, n),
                                   !.chunks = Append(@, Cardinality(chunkAt(i, n)))]]
                   /\ UNCHANGED <<responseCache, cleared>>
              ELSE returnResults(id, [b EXCEPT !.i = i])
        /\ now' = now + (100 * MsPerSec) \div 1000
        /\ UNCHANGED <<harnessVars, storeVars, loaders>>

(***************************************************************************)
(* The fetch functions under any calls, clock advances and clearCache      *)
(***************************************************************************)
MaxJumps == 7

FiveMinutes == 5 * 60 * MsPerSec

\* a call of fetchProcessData for one period: one chunk, and no delay
fetchProcessData == startProcessData("wARTransfer", 1, 1)

\* time passes: a tick, or five minutes
clockAdvances ==
    /\ \E d \in {1, FiveMinutes} :
          /\ now' = now + d
          /\ d = 1 => (now - StartOfModel) % FiveMinutes = 0
          /\ now' <= StartOfModel + MaxJumps * FiveMinutes
    /\ UNCHANGED <<harnessVars, storeVars, cacheVars>>

InitCache ==
    /\ adapter = idleAdapter
    /\ now = StartOfModel
    /\ rec = idleRec
    /\ al = idleAl
    /\ historicalData = noHistory
    /\ charts \in {noCharts, [k \in ChartKeys |-> newChart(k)]}
    /\ fetched = 0
    /\ noFetching

NextCache ==
    \/ fetchNetworkInfo
    \/ fetchBlockHistory
    \/ fetchSupplyHistory
    \/ fetchRuneRealmStats
    \/ fetchStargridStats
    \/ fetchProcessData
    \/ updateStargridChart
    \/ updateRuneRealmChart
    \/ runeRealmImported
    \/ fetchSettles
    \/ stargridChartResumes
    \/ runeRealmChartResumes
    \/ periodSettles
    \/ chunkDone
    \/ clearCache
    \/ clockAdvances

SpecCache == InitCache /\ [][NextCache]_vars

(***************************************************************************)
(* The fetch functions under calls and clearCache, with note taken of what *)
(* follows a clearCache; no time passes                                    *)
(***************************************************************************)
NextClear ==
    \/ fetchNetworkInfo
    \/ fetchBlockHistory
    \/ fetchSupplyHistory
    \/ fetchRuneRealmStats
    \/ fetchStargridStats
    \/ fetchProcessData
    \/ updateStargridChart
    \/ updateRuneRealmChart
    \/ runeRealmImported
    \/ fetchSettles
    \/ stargridChartResumes
    \/ runeRealmChartResumes
    \/ periodSettles
    \/ chunkDone
    \/ clearCacheNoted

SpecClear == InitCache /\ [][NextClear]_vars


(***************************************************************************)
(* fetchProcessData under any number of periods and any failing requests   *)
(***************************************************************************)
MaxPeriods == 12

MaxFailures == 2

\* a call for up to MaxPeriods periods; the dashboard awaits it before it
\* asks for the same periods again
fetchProcessDataBatch ==
    /\ \A id \in 1..Len(calls) : calls[id].pc = "returned"
    /\ \E n \in 1..MaxPeriods, failures \in 0..MaxFailures :
          /\ \A id \in 1..Len(calls) : Len(calls[id].batch.periods) = n
          /\ startProcessData("wARTransfer", n, failures)

InitProcess ==
    /\ adapter = idleAdapter
    /\ now = StartOfModel
    /\ rec = idleRec
    /\ al = idleAl
    /\ historicalData = noHistory
    /\ charts = noCharts
    /\ fetched = 0
    /\ noFetching

NextProcess ==
    \/ fetchProcessDataBatch
    \/ periodSettles
    \/ chunkDone
    \/ delayElapsed

SpecProcess == InitProcess /\ [][NextProcess]_vars


(***************************************************************************)
(* fetchRuneRealmStats: from the BreakdownByDay mapping to the points      *)
(*                                                                         *)
(* The timestamps of this part are exact numbers of milliseconds.  They    *)
(* exceed the integers of the model checker, and are held as sequences of  *)
(* limbs, least significant first, each below LimbBase.  A number of the   *)
(* program holds an integer below 2^53 exactly, which every product made   *)
(* here is.                                                                *)
(***************************************************************************)
LimbBase == 100 * 100

RECURSIVE toLimbs(_)
toLimbs(n) == IF n < LimbBase THEN <<n>>
              ELSE <<n % LimbBase>> \o toLimbs(n \div LimbBase)

\* without the zero limbs at the most significant end
RECURSIVE stripLimbs(_)
stripLimbs(a) ==
    IF Len(a) > 1 /\ a[Len(a)] = 0 THEN stripLimbs(SubSeq(a, 1, Len(a) - 1)) ELSE a

\* a times the limb m, plus carry
RECURSIVE mulLimb(_, _, _)
mulLimb(a, m, carry) ==
    IF a = <<>> THEN (IF carry = 0 THEN <<>> ELSE <<carry>>)
    ELSE LET p == a[1] * m + carry
         IN <<p % LimbBase>> \o mulLimb(Tail(a), m, p \div LimbBase)

RECURSIVE addLimbs(_, _, _)
addLimbs(a, b, carry) ==
    IF a = <<>> /\ b = <<>> THEN (IF carry = 0 THEN <<>> ELSE <<carry>>)
    ELSE LET x == IF a = <<>> THEN 0 ELSE a[1]
             y == IF b = <<>> THEN 0 ELSE b[1]
             sum == x + y + carry
         IN <<sum % LimbBase>>
               \o addLimbs(IF a = <<>> THEN a ELSE Tail(a),
                           IF b = <<>> THEN b ELSE Tail(b), sum \div LimbBase)

\* the product of two numbers
RECURSIVE mulLimbs(_, _)
mulLimbs(a, b) ==
    IF b = <<>> THEN <<0>>
    ELSE stripLimbs(addLimbs(mulLimb(a, b[1], 0), <<0>> \o mulLimbs(a, Tail(b)), 0))

\* a <= b, for numbers without leading zero limbs
RECURSIVE leqLimbs(_, _)
leqLimbs(a, b) ==
    IF Len(a) # Len(b) THEN Len(a) < Len(b)
    ELSE IF a = <<>> THEN TRUE
    ELSE IF a[Len(a)] # b[Len(b)] THEN a[Len(a)] < b[Len(b)]
    ELSE leqLimbs(SubSeq(a, 1, Len(a) - 1), SubSeq(b, 1, Len(b) - 1))

\* 86400000, the milliseconds of a day
MsInDay == 86400000

\* parseInt(day) of a key of decimal digits, the key held as the sequence of
\* its digits
RECURSIVE parseInt(_)
parseInt(day) ==
    IF day = <<>> THEN 0
    ELSE parseInt(SubSeq(day, 1, Len(day) - 1)) * 10 + day[Len(day)]

\* the day taken for a number of seconds
secondsOfDay(day) == mulLimbs(toLimbs(parseInt(day)), toLimbs(86400))

\* const timestampMs = parseInt(day) * 86400000
timestampMsOf(day) == mulLimbs(toLimbs(parseInt(day)), toLimbs(MsInDay))

\* the keys of the mappings received: day numbers in decimal
DayKeys == {<<0>>, <<1>>, <<7>>, <<2, 0, 2, 2, 6>>, <<2, 0, 2, 2, 7>>,
            <<9, 9, 9, 9, 9>>}

\* the values of a category of a breakdown: left out, or a count
CategoryValues == {Undefined, 0, 2}

Breakdowns == [Low : CategoryValues, Medium : CategoryValues, High : CategoryValues]

MaxEntries == 2

\* rawData.BreakdownByDay: day key -> breakdown
BreakdownMappings ==
    UNION {[K -> Breakdowns] : K \in {S \in SUBSET DayKeys : Cardinality(S) <= MaxEntries}}

\* Object.entries(rawData.BreakdownByDay): integer keys come in ascending
\* numeric order
RECURSIVE entriesOf(_, _)
entriesOf(raw, keys) ==
    IF keys = {} THEN <<>>
    ELSE LET last == CHOOSE k \in keys : \A j \in keys : parseInt(j) <= parseInt(k)
         IN Append(entriesOf(raw, keys \ {last}), <<last, raw[last]>>)

\* streakData.push({ timestamp, day, breakdowns })
pushedPoint(entry) ==
    [timestamp |-> timestampMsOf(entry[1]), day |-> entry[1], breakdowns |-> entry[2]]

\* streakData.sort((a, b) => a.timestamp - b.timestamp), a stable sort
RECURSIVE insertStreak(_, _)
insertStreak(s, point) ==
    IF s = <<>> \/ leqLimbs(s[Len(s)].timestamp, point.timestamp) THEN Append(s, point)
    ELSE Append(insertStreak(SubSeq(s, 1, Len(s) - 1), point), s[Len(s)])

RECURSIVE sortStreak(_)
sortStreak(s) ==
    IF s = <<>> THEN <<>>
    ELSE insertStreak(sortStreak(SubSeq(s, 1, Len(s) - 1)), s[Len(s)])

\* the breakdown as the adapter received it
asReceived(breakdowns) == breakdowns

\* if (day.breakdowns.X === undefined) day.breakdowns.X = 0, for Low, Medium
\* and High
withDefaults(breakdowns) ==
    [Low |-> IF breakdowns.Low = Undefined THEN 0 ELSE breakdowns.Low,
     Medium |-> IF breakdowns.Medium = Undefined THEN 0 ELSE breakdowns.Medium,
     High |-> IF breakdowns.High = Undefined THEN 0 ELSE breakdowns.High]

\* the streakData fetchRuneRealmStats caches and returns for a mapping
streakDataOf(raw) ==
    LET entries == entriesOf(raw, DOMAIN raw)
        sorted == sortStreak([i \in 1..Len(entries) |-> pushedPoint(entries[i])])
    IN [i \in 1..Len(sorted) |->
           [sorted[i] EXCEPT !.breakdowns = withDefaults(@)]]

InitAdapter ==
    /\ now = StartOfModel
    /\ rec = idleRec
    /\ al = idleAl
    /\ adapter \in [raw : BreakdownMappings, streakData : {<<>>}, stage : {"received"}]
    /\ historicalData = noHistory
    /\ charts = noCharts
    /\ fetched = 0
    /\ noFetching

\* fetchRuneRealmStats after the await of its dryrun: the response is parsed
\* and transformed, and the streakData is cached under 'runerealm-stats'
\* and returned
transformBreakdownByDay ==
    /\ adapter.stage = "received"
    /\ adapter' = [adapter EXCEPT !.streakData = streakDataOf(adapter.raw),
                                  !.stage = "transformed"]
    /\ responseCache' = cacheSet(cacheKeyOf("fetchRuneRealmStats"),
                                 streakDataOf(adapter.raw))
    /\ cleared' = [cleared EXCEPT !.written = cleared.ran]
    /\ UNCHANGED <<now, rec, al, storeVars, calls, loaders>>

NextAdapter == transformBreakdownByDay

SpecAdapter == InitAdapter /\ [][NextAdapter]_vars


(***************************************************************************)
(* The reconciler applied to any input sequence, once and then to its own  *)
(* output, on a fixed day                                                  *)
(***************************************************************************)
RawPoints == DataPoints \cup {[timestamp |-> NoTimestamp, count |-> 1]}

InitRec ==
    /\ adapter = idleAdapter
    /\ al = idleAl
    /\ historicalData = noHistory
    /\ charts = noCharts
    /\ fetched = 0
    /\ noFetching
    /\ now \in {Today * MsPerDay + 15 * MsPerHour, Today * MsPerDay + MsPerDay - 1}
    /\ rec \in [data : SeqsUpTo(RawPoints, MaxLen), isWeekly : BOOLEAN,
                once : {<<>>}, twice : {<<>>}, stage : {"input"}]

Reconcile ==
    /\ rec.stage = "input"
    /\ rec' = [rec EXCEPT !.once = removeDuplicateDates(rec.data, rec.isWeekly),
                          !.stage = "once"]
    /\ UNCHANGED <<now, al, adapter, storeVars, cacheVars>>

ReconcileAgain ==
    /\ rec.stage = "once"
    /\ rec' = [rec EXCEPT !.twice = removeDuplicateDates(rec.once, rec.isWeekly),
                          !.stage = "twice"]
    /\ UNCHANGED <<now, al, adapter, storeVars, cacheVars>>

NextRec == Reconcile \/ ReconcileAgain

SpecRec == InitRec /\ [][NextRec]_vars

(***************************************************************************)
(* The series aligner applied to any two histories                         *)
(***************************************************************************)
MaxAligned == 2

AlignInstants == {15 * MsPerDay, 15 * MsPerDay + 14 * MsPerHour, Today * MsPerDay}

\* observed points, and the placeholder an earlier alignment left in a history
AlignPoints == [timestamp : AlignInstants, count : {3, 5}]
                  \cup {[timestamp |-> 15 * MsPerDay, count |-> Null]}

InitAlign ==
    /\ adapter = idleAdapter
    /\ now = StartOfModel
    /\ rec = idleRec
    /\ al \in [primaryData : SeqsUpTo(AlignPoints, MaxAligned),
               secondaryData : SeqsUpTo(AlignPoints, MaxAligned),
               stage : {"input"}]
    /\ historicalData = noHistory
    /\ charts = [k \in ChartKeys |-> newChart(k)]
    /\ fetched = 0
    /\ noFetching

Align ==
    /\ al.stage = "input"
    /\ becomes(updateStandardCombinedChart(state, "wUSDCTransfer", "USDATransfer",
                                           al.primaryData, al.secondaryData))
    /\ al' = [al EXCEPT !.stage = "aligned"]
    /\ UNCHANGED <<now, rec, adapter, fetched, cacheVars>>

NextAlign == Align

SpecAlign == InitAlign /\ [][NextAlign]_vars


(***************************************************************************)
(* Claims about removeDuplicateDates                                       *)
(***************************************************************************)
\* the points of the input that carry a timestamp
recInput == {p \in {rec.data[i] : i \in 1..Len(rec.data)} : p.timestamp # NoTimestamp}

recInputOn(d) == {p \in recInput : dateKey(p.timestamp) = d}

recOnceOn(d) == {i \in 1..Len(rec.once) : dateKey(rec.once[i].timestamp) = d}

\* C2: reconciliation is idempotent: for a fixed current UTC date, for the
\* daily and the weekly granularity and for every input sequence, applying
\* removeDuplicateDates to its own output gives the same sequence, the same
\* points in the same order, as applying it once.
C2_Idempotent == rec.stage = "twice" => rec.twice = rec.once

\* a three-point input of which one point was removed, reconciled twice
C2_Witness ==
    /\ rec.stage = "twice"
    /\ Len(rec.data) = 3
    /\ Len(rec.once) = 2
    /\ rec.twice = rec.once

\* C3: for a daily series and any input sequence, every UTC day other than
\* the current day that has an input point has exactly one point in the
\* output, and that point is an input point of the day with the day's latest
\* timestamp.
C3_LatestPerDay ==
    (rec.stage # "input" /\ ~rec.isWeekly) =>
        \A d \in {dateKey(p.timestamp) : p \in recInput} \ {todayUTC} :
            /\ Cardinality(recOnceOn(d)) = 1
            /\ \A i \in recOnceOn(d) :
                  /\ rec.once[i] \in recInputOn(d)
                  /\ rec.once[i].timestamp =
                        Max({p.timestamp : p \in recInputOn(d)})

\* a daily input with two points of one earlier day at different times, the
\* later one first, has been reconciled
C3_Witness ==
    /\ rec.stage = "once"
    /\ ~rec.isWeekly
    /\ Len(rec.data) >= 2
    /\ dateKey(rec.data[1].timestamp) = 15
    /\ dateKey(rec.data[2].timestamp) = 15
    /\ rec.data[1].timestamp > rec.data[2].timestamp
    /\ rec.data[1].timestamp # NoTimestamp
    /\ rec.data[2].timestamp # NoTimestamp

\* the today points of the output, in output order
recOnceToday ==
    selectSeq(rec.once, {p \in {rec.once[i] : i \in 1..Len(rec.once)} :
                            dateKey(p.timestamp) = todayUTC})

\* C4: among the points of the current UTC day the output retains at most
\* two: the point at exactly 00:00:00 UTC if one is present, and the single
\* latest of the remaining today points if there is one; every other today
\* point is discarded, and the midnight point comes first.
C4_TodayMidnightAndLatest ==
    rec.stage # "input" =>
        LET mids == {p \in recInputOn(todayUTC) : p.timestamp % MsPerDay = 0}
            rest == recInputOn(todayUTC) \ mids
            out  == recOnceToday
            isLatest(p) == /\ p \in rest
                           /\ p.timestamp = Max({q.timestamp : q \in rest})
        IN /\ Len(out) <= 2
           /\ mids # {} => \E i \in 1..Len(out) : out[i] \in mids
           /\ rest # {} => \E i \in 1..Len(out) : isLatest(out[i])
           /\ \A i \in 1..Len(out) : out[i] \in mids \/ isLatest(out[i])
           /\ Cardinality({i \in 1..Len(out) : out[i] \in mids}) <= 1
           /\ Cardinality({i \in 1..Len(out) : isLatest(out[i])}) <= 1
           /\ (mids # {} /\ rest # {}) => out[1] \in mids

(***************************************************************************)
(* Claims about the store and the charts                                   *)
(***************************************************************************)
entriesOn(history, d) == {i \in 1..Len(history) : dateKey(history[i].timestamp) = d}

\* C5: in every state between synchronous operations every history held in
\* historicalData, both series of the combined chart included, is
\* non-decreasing by timestamp and holds at most one entry per UTC day,
\* except the current UTC day, of which it holds at most two.
C5_CanonicalHistories ==
    \A k \in SeriesKeys :
        LET history == historicalData[k]
        IN /\ \A i \in 1..Len(history) - 1 :
                 history[i].timestamp <= history[i + 1].timestamp
           /\ \A d \in {dateKey(history[i].timestamp) : i \in 1..Len(history)} :
                 Cardinality(entriesOn(history, d)) <= (IF d = todayUTC THEN 2 ELSE 1)

\* C7: in every reachable state the labels of every chart are as many as the
\* data of each of its datasets.
C7_ChartShape ==
    \A k \in DOMAIN charts :
        \A i \in 1..Len(charts[k].datasets) :
            Len(charts[k].datasets[i]) = Len(charts[k].labels)

(***************************************************************************)
(* Claims about the series aligner                                         *)
(***************************************************************************)
timestampsOf(data) == {data[i].timestamp : i \in 1..Len(data)}

countsAt(data, t) == {data[i].count : i \in {j \in 1..Len(data) : data[j].timestamp = t}}

\* the values of dataset n of the combined chart are those of series data on
\* the timeline the labels were made from
valuesFollow(n, data) ==
    LET chart == charts["wUSDCTransfer"]
    IN /\ Len(chart.datasets[n]) = Len(chart.labels)
       /\ \A i \in 1..Len(chart.labels) :
             LET t == chart.labels[i][2]
             IN IF t \in timestampsOf(data)
                THEN chart.datasets[n][i] \in countsAt(data, t)
                ELSE chart.datasets[n][i] = Null

\* C6: for any two histories A and B, updateStandardCombinedChart produces a
\* timeline that is the ascending set of the distinct timestamps of A and B,
\* none missing and none repeated, and at each position the value of a
\* series is its count at exactly that timestamp if it has a point there and
\* null otherwise; A = [{t1, 5}], B = [{t2, 3}] with t1 < t2 gives labels
\* [t1, t2], A-values [5, null] and B-values [null, 3].
C6_SeriesAlignment ==
    al.stage = "aligned" =>
        LET chart == charts["wUSDCTransfer"]
            T == timestampsOf(al.primaryData) \cup timestampsOf(al.secondaryData)
        IN /\ Len(chart.labels) = Cardinality(T)
           /\ \A i \in 1..Len(chart.labels) :
                 \E t \in T : chart.labels[i] = formatDate(t)
           /\ \A i \in 1..Len(chart.labels) - 1 :
                 chart.labels[i][2] < chart.labels[i + 1][2]
           /\ valuesFollow(1, al.primaryData)
           /\ valuesFollow(2, al.secondaryData)
           /\ (/\ al.primaryData = <<[timestamp |-> 15 * MsPerDay, count |-> 5]>>
               /\ al.secondaryData = <<[timestamp |-> Today * MsPerDay, count |-> 3]>>)
              => chart = [labels |-> <<formatDate(15 * MsPerDay),
                                       formatDate(Today * MsPerDay)>>,
                          datasets |-> <<<<5, Null>>, <<Null, 3>>>>]

\* two histories that share one instant and differ on another were aligned
C6_Witness ==
    /\ al.stage = "aligned"
    /\ Len(al.primaryData) = 2
    /\ Len(al.secondaryData) = 2
    /\ Cardinality(timestampsOf(al.primaryData) \cap timestampsOf(al.secondaryData)) = 1
    /\ Len(charts["wUSDCTransfer"].labels) = 3

(***************************************************************************)
(* Response cache: lifetimes                                               *)
(***************************************************************************)
\* the lifetimes the claim states, in minutes
statedMinutes(op) ==
    CASE op = "fetchNetworkInfo" -> 5
      [] op = "fetchBlockHistory" -> 15
      [] op = "fetchSupplyHistory" -> 30
      [] op = "fetchProcessData" -> 10
      [] op = "fetchRuneRealmStats" -> 20
      [] op = "fetchStargridStats" -> 15

statedTTL(op) == statedMinutes(op) * 60 * MsPerSec

\* the calls whose fetch function has been entered
entered == {id \in 1..Len(calls) : calls[id].pc # "importing"}

\* the call sent a request, or requests
issued(call) == call.pc \in {"awaiting", "chunk", "delay"}
                \/ call.served = "network" \/ call.pc = "thrown"

\* C1: under any calls, clock advances and clearCache calls, a call of a fetch
\* function returns without a request only if responseCache held an entry for
\* its key whose age did not exceed the TTL of the function (5, 15, 30, 10, 20,
\* 15 minutes); with the entry missing or older the call sends a request; and
\* no returned data are older than the TTL
C1_CacheTTL ==
    \A id \in entered :
        LET call == calls[id]
        IN /\ call.served = "cache" =>
                 /\ call.entryAge >= 0
                 /\ call.entryAge <= statedTTL(call.op)
                 /\ ~issued(call)
           /\ (call.entryAge = -1 \/ call.entryAge > statedTTL(call.op)) =>
                 /\ call.served # "cache"
                 /\ issued(call)

\* a call of a function with a TTL above five minutes was served from an
\* entry five minutes old or older, without a request
C1_Witness ==
    \E id \in entered :
        /\ calls[id].served = "cache"
        /\ calls[id].entryAge >= FiveMinutes
        /\ calls[id].pc = "returned"

(***************************************************************************)
(* fetchProcessData: failing periods                                       *)
(***************************************************************************)
\* the calls of fetchProcessData that missed the cache and have returned
batchesReturned ==
    {id \in 1..Len(calls) : /\ calls[id].op = "fetchProcessData"
                            /\ calls[id].pc = "returned"
                            /\ calls[id].served = "network"}

\* C8: whatever requests fail, a call of fetchProcessData resolves with one
\* point per period, in the order of the periods, with the endTime of the
\* period, the upstream count where the request succeeded and 0 where it
\* failed; the call never rejects
C8_TotalOverFailures ==
    /\ \A id \in 1..Len(calls) :
          calls[id].op = "fetchProcessData" => calls[id].pc # "thrown"
    /\ \A id \in batchesReturned :
          LET b == calls[id].batch
              result == calls[id].data[1]
          IN /\ Len(result) = Len(b.periods)
             /\ \A idx \in 1..Len(b.periods) :
                   /\ result[idx].timestamp = b.periods[idx].endTime
                   /\ result[idx].count = IF b.outcomes[idx] = "ok"
                                          THEN upstreamCount(idx) ELSE 0

(***************************************************************************)
(* fetchProcessData: chunks and delays                                     *)
(***************************************************************************)
ceilDiv(n, d) == (n + d - 1) \div d

\* C9: a call of fetchProcessData on n >= 1 periods that misses the cache
\* submits ceil(n/5) chunks, of 5 periods each but for the last, which holds
\* the rest, and delays ceil(n/5) - 1 times, once between two consecutive
\* chunks and never after the last; 12 periods make chunks of 5, 5, 2 and 2
\* delays
C9_ChunksAndDelays ==
    \A id \in 1..Len(calls) :
        LET call == calls[id]
            b == call.batch
            n == Len(b.periods)
        IN call.op = "fetchProcessData" =>
              /\ call.pc = "chunk" => b.delays = Len(b.chunks) - 1
              /\ call.pc = "delay" => b.delays = Len(b.chunks)
                                      /\ Len(b.chunks) < ceilDiv(n, 5)
              /\ id \in batchesReturned =>
                    /\ Len(b.chunks) = ceilDiv(n, 5)
                    /\ \A k \in 1..Len(b.chunks) :
                          b.chunks[k] = IF k < Len(b.chunks) THEN 5
                                        ELSE n - 5 * (Len(b.chunks) - 1)
                    /\ b.delays = ceilDiv(n, 5) - 1
                    /\ n = 12 => b.chunks = <<5, 5, 2>> /\ b.delays = 2

\* a call on 12 periods has returned after three chunks and two delays
C9_Witness ==
    \E id \in batchesReturned :
        /\ Len(calls[id].batch.periods) = 12
        /\ calls[id].batch.chunks = <<5, 5, 2>>
        /\ calls[id].batch.delays = 2

(***************************************************************************)
(* Overlapping calls of one fetch function                                 *)
(***************************************************************************)
\* the pairs <<first, second>> of calls for one key, the second issued while
\* the first was in flight, both resolved with data of their own request and
\* their callers gone on, with the entry of the key in the cache and no call
\* for the key completed after the two
overlapsResolved ==
    {pair \in (1..Len(calls)) \X (1..Len(calls)) :
        LET first == calls[pair[1]]
            second == calls[pair[2]]
        IN /\ pair[1] \in second.overlapped
           /\ first.pc = "returned" /\ first.served = "network"
           /\ second.pc = "returned" /\ second.served = "network"
           /\ ~first.suspended /\ ~second.suspended
           /\ first.key \in DOMAIN responseCache
           /\ \A k \in 1..Len(calls) :
                 (k \notin {pair[1], pair[2]} /\ calls[k].key = first.key)
                    => /\ calls[k].doneSeq < first.doneSeq
                       /\ calls[k].doneSeq < second.doneSeq}

\* updateStargridChart made both calls
bothFromStargridChart(pair) ==
    /\ calls[pair[1]].caller = "updateStargridChart"
    /\ calls[pair[2]].caller = "updateStargridChart"

\* C10 as stated: once two overlapping calls for one key have both resolved,
\* the cache entry and the chart state hold the result of the call issued
\* later, whatever the order of arrival
C10_LaterIssuedWins ==
    \A pair \in overlapsResolved :
        /\ responseCache[calls[pair[2]].key].data = calls[pair[2]].data[1]
        /\ bothFromStargridChart(pair) =>
              historicalData["stargrid"] = calls[pair[2]].data[1]

\* C10 amended: neither call is aborted, and once two overlapping calls for
\* one key have both resolved, the cache entry and the chart state hold the
\* result of the call that resolved last, which is the call issued later
\* only when the responses arrive in the order of the requests
C10_LastResolvedWins ==
    \A pair \in overlapsResolved :
        LET last == IF calls[pair[1]].doneSeq > calls[pair[2]].doneSeq
                    THEN pair[1] ELSE pair[2]
        IN /\ responseCache[calls[last].key].data = calls[last].data[1]
           /\ bothFromStargridChart(pair) =>
                 historicalData["stargrid"] = calls[last].data[1]

\* two overlapping calls of updateStargridChart have resolved, the one issued
\* first last
C10_Witness ==
    \E pair \in overlapsResolved :
        /\ bothFromStargridChart(pair)
        /\ calls[pair[1]].doneSeq > calls[pair[2]].doneSeq
        /\ calls[pair[1]].data # calls[pair[2]].data

(***************************************************************************)
(* Views of the history store                                              *)
(***************************************************************************)
\* the reconciled history of series k: what updateChartTimeRange stores back
\* before it computes the view
reconciledHistory(k) ==
    removeDuplicateDates(sortByTimestamp(historicalData[k]), includesWeekly(k))

\* a step of the store in which nothing was fetched, no fetch function ran
\* and no time passed
viewStep == now' = now /\ fetched' = fetched /\ calls' = calls

\* C11: the filter and render calls only read the history store: after
\* updateChartTimeRange, updateStandardChart or updateCombinedChart with any
\* time range, historicalData of every series holds the points of its
\* reconciled history before the view was computed; the filtered and the
\* aligned sequences are not stored
C11_ViewsOnlyRead ==
    [][/\ \A k \in SeriesKeys, timeRange \in TimeRanges :
             (viewStep /\ becomes(updateChartTimeRange(state, k, timeRange)))
                => historicalData' =
                      [historicalData EXCEPT ![k] = reconciledHistory(k)]
       /\ \A k \in {"wARweeklyTransfer", "stargrid"}, timeRange \in TimeRanges :
             (viewStep /\ becomes(updateStandardChart(state, k,
                              filterDataByTimeRange(historicalData[k], timeRange))))
                => historicalData' = historicalData
       /\ \A timeRange \in TimeRanges :
             (viewStep /\ becomes(updateCombinedChart(state, "wUSDCTransfer",
                                                      "USDATransfer", timeRange)))
                => historicalData' = historicalData]_vars

(***************************************************************************)
(* A failing fetch inside updateStargridChart or updateRuneRealmChart      *)
(***************************************************************************)
\* call id of a chart function goes on from its await in this step
resumesNow(id) ==
    /\ id <= Len(calls')
    /\ calls[id].suspended
    /\ ~calls'[id].suspended

\* C12: when the fetch inside updateStargridChart or updateRuneRealmChart
\* throws, the loader of that series ends hidden, historicalData and the
\* charts of that series and of every other series keep their values, and
\* the loaders of the other series are unchanged: the step in which the
\* fetch function throws changes none of them, and the step in which the
\* chart function goes on from its await hides that loader and changes
\* nothing else
C12_FailureContained ==
    [][\A id \in 1..Len(calls) :
          /\ (/\ Len(calls') >= id
              /\ calls[id].caller \in ChartCallers
              /\ calls[id].pc # "thrown"
              /\ calls'[id].pc = "thrown")
                => /\ historicalData' = historicalData
                   /\ charts' = charts
                   /\ loaders' = loaders
          /\ (resumesNow(id) /\ calls[id].pc = "thrown")
                => /\ historicalData' = historicalData
                   /\ charts' = charts
                   /\ loaders' = [loaders EXCEPT ![loaderOf(calls[id].caller)] = FALSE]]_vars

\* the fetch of a chart function has thrown while the series showed the data
\* of an earlier call, the chart function has gone on, and the loader is
\* hidden
C12_Witness ==
    \E id \in 1..Len(calls) :
        /\ calls[id].pc = "thrown"
        /\ ~calls[id].suspended
        /\ calls[id].caller = "updateStargridChart"
        /\ historicalData["stargrid"] # <<>>
        /\ "stargrid" \in DOMAIN charts
        /\ charts["stargrid"].labels # <<>>
        /\ ~loaders["stargrid"]

(***************************************************************************)
(* Retries                                                                 *)
(***************************************************************************)
\* the periods of a call whose request failed
failedPeriods(call) ==
    {idx \in DOMAIN call.batch.outcomes :
        call.batch.outcomes[idx] \notin {"ok", "no_count"}}

\* a fetch of the call failed: the call threw, or the request of a period did
fetchFailedIn(call) == call.pc = "thrown" \/ failedPeriods(call) # {}

\* call id2 is the next call of the operation and arguments of call id1, made
\* after call id1 completed
nextCallAfter(id1, id2) ==
    /\ id1 < id2
    /\ calls[id1].op = calls[id2].op
    /\ calls[id1].key = calls[id2].key
    /\ calls[id1].pc \in {"returned", "thrown"}
    /\ id1 \notin calls[id2].overlapped
    /\ \A k \in 1..Len(calls) : (id1 < k /\ k < id2) => calls[k].key # calls[id1].key

\* C13: a call in which a fetch failed sends no further request for the
\* failed item (every period is requested once), and the next call of the
\* same operation with the same arguments sends the request again
C13_NextCallRetries ==
    /\ \A id \in batchesReturned :
          DOMAIN calls[id].batch.outcomes = calls[id].batch.started
    /\ \A id1, id2 \in entered :
          (nextCallAfter(id1, id2) /\ fetchFailedIn(calls[id1]))
             => issued(calls[id2])

(***************************************************************************)
(* What a chart displays under a time range                                *)
(***************************************************************************)
\* the time ranges with a window
WindowRanges == TimeRanges \ {"all"}

\* the instant a label of formatDate or formatDateUTCWithLocalTime names
instantOf(label) == label[2]

\* the labels of chart k name the instants of points, in order
displays(chart, points) ==
    /\ Len(chart.labels) = Len(points)
    /\ \A i \in 1..Len(points) : instantOf(chart.labels[i]) = points[i].timestamp

\* a step in which updateRuneRealmChart goes on from its await of call id
\* with the data and draws them under timeRange, in the time zone zone
runeRealmDrawn(id, timeRange, zone) ==
    /\ calls[id].caller = "updateRuneRealmChart"
    /\ calls[id].pc = "returned"
    /\ resumesNow(id)
    /\ "runeRealm" \in DOMAIN charts
    /\ becomes(runeRealmResolved(state, calls[id].data[1], timeRange, zone))

\* a step in which chart k is redrawn under timeRange
chartRedrawn(k, timeRange) ==
    /\ viewStep
    /\ k \in DOMAIN charts
    /\ becomes(updateChartTimeRange(state, k, timeRange))

\* C14: a chart updated under a time range other than 'all' displays the
\* output of the time-range filter for the history of its series, every
\* point within [now - window, now]; an empty history or a window without
\* points gives an empty display, never points outside the window
C14_DisplayIsFiltered ==
    [][/\ \A id \in 1..Len(calls), timeRange \in WindowRanges, zone \in TimeZones :
             runeRealmDrawn(id, timeRange, zone) =>
                LET shown == filterDataByTimeRange(
                                sortByTimestamp(calls[id].data[1]), timeRange)
                IN charts'["runeRealm"].labels =
                      [i \in 1..Len(shown) |->
                          formatMonthDay(shown[i].timestamp, zone)]
       /\ \A k \in {"wARweeklyTransfer", "stargrid", "wARTotalSupply", "runeRealm"},
             timeRange \in WindowRanges :
             chartRedrawn(k, timeRange) =>
                displays(charts'[k],
                         filterDataByTimeRange(reconciledHistory(k), timeRange))
       /\ \A timeRange \in WindowRanges :
             chartRedrawn("wUSDCTransfer", timeRange) =>
                \A i \in 1..Len(charts'["wUSDCTransfer"].labels) :
                   LET t == instantOf(charts'["wUSDCTransfer"].labels[i])
                   IN now - 7 * MsPerDay <= t /\ t <= now]_vars

(***************************************************************************)
(* fetchRuneRealmStats: day numbers and defaults                           *)
(***************************************************************************)
\* the points of the adapter once the mapping is transformed
transformed == IF adapter.stage = "transformed" THEN adapter.streakData ELSE <<>>

\* dayNumber * 86400000 computed another way: dayNumber * 8640, then four
\* decimal zeros
exactMs(dayNumber) == stripLimbs(<<0>> \o toLimbs(dayNumber * 8640))

\* the timestamp of every point is its day number times 86400000
everyDayExact ==
    /\ adapter.stage = "transformed" =>
          Len(transformed) = Cardinality(DOMAIN adapter.raw)
    /\ \A i \in 1..Len(transformed) :
          /\ transformed[i].day \in DOMAIN adapter.raw
          /\ transformed[i].timestamp = exactMs(parseInt(transformed[i].day))

\* the timestamp the adapter gives day 20226, if it has transformed it
timestampOf20226(ms) ==
    \A i \in 1..Len(transformed) :
        transformed[i].day = <<2, 0, 2, 2, 6>> => transformed[i].timestamp = ms

\* C15 as stated: the timestamp of the point of every day key is the day
\* number times 86400000 milliseconds, exactly, and day 20226 gives
\* 1748390400000
C15_AsStated == everyDayExact /\ timestampOf20226(<<0, 9040, 7483, 1>>)

\* C15 amended: the timestamp of the point of every day key is the day number
\* times 86400000 milliseconds, exactly, and day 20226 gives 1747526400000
\* (1748390400000 is day 20236)
C15_DayNumberConversion == everyDayExact /\ timestampOf20226(<<0, 2640, 7475, 1>>)

\* the mapping with day 20226 has been transformed
C15_Witness ==
    \E i \in 1..Len(transformed) :
        /\ parseInt(transformed[i].day) = 20226
        /\ transformed[i].timestamp = <<0, 2640, 7475, 1>>

\* C16: every point fetchRuneRealmStats returns carries Low, Medium and High:
\* the value of the source where the source gives one, unchanged, and 0
\* where the source leaves it out; the adapter does the defaulting
C16_AdapterDefaults ==
    \A i \in 1..Len(transformed) :
        LET source == adapter.raw[transformed[i].day]
            point == transformed[i].breakdowns
        IN /\ point.Low = (IF source.Low = Undefined THEN 0 ELSE source.Low)
           /\ point.Medium = (IF source.Medium = Undefined THEN 0 ELSE source.Medium)
           /\ point.High = (IF source.High = Undefined THEN 0 ELSE source.High)
           /\ Undefined \notin {point.Low, point.Medium, point.High}

\* a mapping with a category left out and a category given has been
\* transformed
C16_Witness ==
    \E i \in 1..Len(transformed) :
        LET source == adapter.raw[transformed[i].day]
        IN /\ source.Medium = Undefined
           /\ source.High = 2
           /\ transformed[i].breakdowns.Medium = 0
           /\ transformed[i].breakdowns.High = 2

(***************************************************************************)
(* A response without the expected tag                                     *)
(***************************************************************************)
\* C17: when the first message of the response lacks the tag fetchBlockHistory,
\* fetchSupplyHistory or fetchStargridStats reads (DailyBlocks, DailySupply,
\* DailyStats), the call throws instead of returning data and writes no
\* cache entry
C17_MissingTagFails ==
    [][\A id \in 1..Len(calls) :
          (/\ Len(calls') >= id
           /\ calls[id].pc = "awaiting"
           /\ calls'[id].outcome = "missing_tag")
             => /\ calls[id].op \in TagOps
                /\ calls'[id].pc = "thrown"
                /\ calls'[id].served = "none"
                /\ calls'[id].data = <<>>
                /\ responseCache' = responseCache]_vars

\* a call of a tag-reading function has thrown on a response without the tag,
\* and the cache has no entry for its key
C17_Witness ==
    \E id \in 1..Len(calls) :
        /\ calls[id].op \in TagOps
        /\ calls[id].outcome = "missing_tag"
        /\ calls[id].pc = "thrown"
        /\ calls[id].key \notin DOMAIN responseCache

(***************************************************************************)
(* clearCache                                                              *)
(***************************************************************************)
\* C18: after clearCache() the cache holds no entry, and the next call of
\* every fetch function, for every key, sends a request, however recently the
\* key was fetched before the clear.  A request in flight at the clear is not
\* cancelled: it writes its entry when it completes, and the next call for
\* its key is served from that entry without a request.
C18_NextCallRefetches ==
    /\ (cleared.ran /\ ~cleared.written) => responseCache = noCache
    /\ \A id \in entered :
          calls[id].nextAfterClear => (calls[id].entryAge = -1 /\ issued(calls[id]))

(***************************************************************************)
(* The values of the points of the store                                   *)
(***************************************************************************)
\* a count or a category value: an integer, not negative, neither null nor
\* undefined
nonNegativeInteger(v) == v \in Nat /\ v # Null /\ v # Undefined

\* C19: in every state every point of historicalData, of every series, has a
\* count (or category values) that is a non-negative integer, never null or
\* undefined, after failed period fetches and after the alignment of the
\* combined chart too
C19_PointValues ==
    \A k \in SeriesKeys :
        \A i \in 1..Len(historicalData[k]) :
            LET point == historicalData[k][i]
            IN CASE k = "runeRealm" ->
                      /\ nonNegativeInteger(point.breakdowns.Low)
                      /\ nonNegativeInteger(point.breakdowns.Medium)
                      /\ nonNegativeInteger(point.breakdowns.High)
                 [] k = "wARTotalSupply" -> nonNegativeInteger(point.wARSupply)
                 [] OTHER -> nonNegativeInteger(point.count)


(***************************************************************************)
(* The chunks of one fetchProcessData call                                 *)
(***************************************************************************)
\* the period requests of a call that are started and have not ended
requestsInFlight(b) == b.started \ DOMAIN b.outcomes

\* the requests of a call are those of its chunks up to the one in progress,
\* all of the earlier chunks have ended, and none is left during the delay
chunksInOrder(id) ==
    LET b == calls[id].batch
        n == Len(b.periods)
    IN /\ Cardinality(requestsInFlight(b)) <= CHUNK_SIZE
       /\ calls[id].pc = "chunk" =>
             /\ b.started = {idx \in 1..n : idx <= b.i + CHUNK_SIZE}
             /\ {idx \in 1..n : idx <= b.i} \subseteq DOMAIN b.outcomes
       /\ calls[id].pc = "delay" => requestsInFlight(b) = {}

\* a step that starts requests of a call under way: the delay after a chunk
\* whose requests have all ended is over, and the requests started are the
\* whole next chunk
nextChunkStep(id) ==
    LET b == calls[id].batch
        n == Len(b.periods)
    IN calls'[id].batch.started # b.started =>
          /\ calls[id].pc = "delay"
          /\ requestsInFlight(b) = {}
          /\ b.started = {idx \in 1..n : idx <= b.i + CHUNK_SIZE}
          /\ calls'[id].batch.started \ b.started =
                {idx \in 1..n : b.i + CHUNK_SIZE < idx
                                /\ idx <= b.i + 2 * CHUNK_SIZE}
          /\ calls'[id].batch.outcomes = b.outcomes

\* C20: within one fetchProcessData call no request of the next chunk is
\* started before every request of the chunk before it has ended, with a
\* count or with a failure, and the delay is over; so at most CHUNK_SIZE
\* period requests of the call are in flight at any time, and the requests of
\* one chunk are all started in one step, before any of them is awaited
C20_ChunksInSequence ==
    /\ [](\A id \in 1..Len(calls) : chunksInOrder(id))
    /\ [][\A id \in 1..Len(calls) : nextChunkStep(id)]_vars

\* a call in its second chunk with CHUNK_SIZE requests in flight, after a
\* request of its first chunk failed
C20_Witness ==
    \E id \in 1..Len(calls) :
        LET b == calls[id].batch
        IN /\ calls[id].pc = "chunk"
           /\ b.i = CHUNK_SIZE
           /\ Cardinality(requestsInFlight(b)) = CHUNK_SIZE
           /\ \E idx \in 1..CHUNK_SIZE : b.outcomes[idx] # "ok"


(***************************************************************************)
(* The order and the content of the reconciled sequence                    *)
(***************************************************************************)
\* the input points of another day than today, and the keys they fall under
recOthers == recInput \ recInputOn(todayUTC)

recOtherKeys == {bucketKey(p, rec.isWeekly) : p \in recOthers}

\* the today input points at 00:00:00 and the other ones
recTodayMidnights == {p \in recInputOn(todayUTC) : isMidnight(p.timestamp)}

recTodayLater == recInputOn(todayUTC) \ recTodayMidnights

\* how many points are retained: one per key of the other points, the
\* midnight point of today and the latest later point of today
retainedCount ==
    Cardinality(recOtherKeys)
        + (IF recTodayMidnights # {} THEN 1 ELSE 0)
        + (IF recTodayLater # {} THEN 1 ELSE 0)

\* the positions of the output that hold an other point of key
recOnceUnder(key) ==
    {i \in 1..Len(rec.once) :
        /\ dateKey(rec.once[i].timestamp) # todayUTC
        /\ bucketKey(rec.once[i], rec.isWeekly) = key}

\* C21: for any input sequence, unsorted, with several points of one day or
\* out of order, the output of removeDuplicateDates is non-decreasing by
\* timestamp, every output point is an input point, and the retained points,
\* one per key of the other points and those of today, are all in the output,
\* each once
C21_SortedRetained ==
    rec.stage # "input" =>
        /\ \A i \in 1..Len(rec.once) - 1 :
              rec.once[i].timestamp <= rec.once[i + 1].timestamp
        /\ \A i \in 1..Len(rec.once) : rec.once[i] \in recInput
        /\ Len(rec.once) = retainedCount
        /\ \A key \in recOtherKeys : Cardinality(recOnceUnder(key)) = 1
        /\ recTodayMidnights # {} =>
              \E i \in 1..Len(rec.once) : rec.once[i] \in recTodayMidnights
        /\ recTodayLater # {} =>
              \E i \in 1..Len(rec.once) : rec.once[i] \in recTodayLater
        /\ \A i, j \in 1..Len(rec.once) : i # j => rec.once[i] # rec.once[j]

\* an input of three points in descending order, one of today and two of one
\* earlier day, has been reconciled to two points
C21_Witness ==
    /\ rec.stage = "once"
    /\ Len(rec.data) = 3
    /\ \A i \in 1..3 : rec.data[i].timestamp # NoTimestamp
    /\ dateKey(rec.data[1].timestamp) = todayUTC
    /\ dateKey(rec.data[2].timestamp) = 15
    /\ dateKey(rec.data[3].timestamp) = 15
    /\ rec.data[2].timestamp > rec.data[3].timestamp
    /\ Len(rec.once) = 2
    /\ rec.once[1] = rec.data[2]
    /\ rec.once[2] = rec.data[1]


(***************************************************************************)
(* The weekly series                                                       *)
(***************************************************************************)
\* the input points of a week that are not of today
recOthersOfWeek(w) == {p \in recOthers : weekStartKey(p.timestamp) = w}

\* the positions of the output that hold a point of a week, not of today
recOnceOfWeek(w) ==
    {i \in 1..Len(rec.once) :
        /\ dateKey(rec.once[i].timestamp) # todayUTC
        /\ weekStartKey(rec.once[i].timestamp) = w}

\* C22: for a weekly series the output of the reconciliation holds, of every
\* week that starts on a Sunday (UTC), one entry at most, the point of the
\* week with the latest timestamp; the current UTC day is the only exception:
\* its points are not counted with the week and it contributes at most two
\* entries
C22_OnePerWeek ==
    (rec.stage # "input" /\ rec.isWeekly) =>
        /\ \A w \in {weekStartKey(t) : t \in Instants} :
              /\ Cardinality(recOnceOfWeek(w)) <= 1
              /\ recOthersOfWeek(w) # {} =>
                    \E i \in recOnceOfWeek(w) :
                        /\ rec.once[i] \in recOthersOfWeek(w)
                        /\ rec.once[i].timestamp =
                              Max({p.timestamp : p \in recOthersOfWeek(w)})
        /\ Len(recOnceToday) <= 2

\* a weekly input with points of two days of one week, the later day first,
\* and a point of today, has been reconciled to the later one and today's
C22_Witness ==
    /\ rec.stage = "once"
    /\ rec.isWeekly
    /\ Len(rec.data) = 3
    /\ \A i \in 1..3 : rec.data[i].timestamp # NoTimestamp
    /\ dateKey(rec.data[1].timestamp) = 15
    /\ dateKey(rec.data[2].timestamp) = 14
    /\ dateKey(rec.data[3].timestamp) = todayUTC
    /\ rec.once = <<rec.data[1], rec.data[3]>>


(***************************************************************************)
(* The age at which an entry is stale                                      *)
(***************************************************************************)
\* C23: an entry is stale only once its age exceeds the lifetime of its
\* function: a call that finds the entry of its key at an age up to the
\* lifetime, the lifetime itself included, returns the cached data without a
\* request, and a call that finds it at a greater age sends a request
C23_StaleBeyondTTL ==
    \A id \in 1..Len(calls) :
        calls[id].entryAge >= 0 =>
            IF calls[id].entryAge <= ttlOf(calls[id].op)
            THEN calls[id].served = "cache"
            ELSE calls[id].served # "cache"


(***************************************************************************)
(* What changes the response cache                                         *)
(***************************************************************************)
\* the calls whose request ends in this step with data returned
returningNow ==
    {id \in 1..Len(calls) : calls[id].served = "none" /\ calls'[id].served = "network"}

\* the cache after the step is the cache before it but for the entry of the
\* key of call id, which holds the data the call returns, stamped now
wroteOwnEntry(id) ==
    /\ DOMAIN responseCache' = DOMAIN responseCache \cup {calls[id].key}
    /\ responseCache'[calls[id].key] =
          [data |-> calls'[id].data[1], timestamp |-> now]
    /\ \A k \in DOMAIN responseCache \ {calls[id].key} :
          responseCache'[k] = responseCache[k]

\* the step is clearCache(): every entry is gone and nothing else happened
clearStep == responseCache' = noCache /\ calls' = calls /\ now' = now

\* C24: the response cache changes only when a fetch function returns the
\* data of its request, which writes the entry of its own key and no other,
\* and by clearCache; a call served from the cache, a call that finds a stale
\* entry, a call that throws and the passage of time leave every entry, its
\* data and its timestamp, as it was
C24_CacheFrame ==
    [][/\ responseCache' # responseCache =>
             clearStep \/ \E id \in returningNow : wroteOwnEntry(id)
       /\ \A id \in returningNow : wroteOwnEntry(id)]_vars

\* a call found the entry of its key stale and threw; the entry is still in
\* the cache, stale
C24_Witness ==
    \E id \in 1..Len(calls) :
        /\ calls[id].pc = "thrown"
        /\ calls[id].entryAge >= ttlOf(calls[id].op)
        /\ calls[id].key \in DOMAIN responseCache
        /\ now - responseCache[calls[id].key].timestamp >= ttlOf(calls[id].op)


(***************************************************************************)
(* The loader at the end of a chart function                               *)
(***************************************************************************)
\* the calls of the chart functions that end in this step: the function goes
\* on from its await of the fetch function and runs to its end
endingNow == {id \in 1..Len(calls) : resumesNow(id)}

\* C25: every call of updateStargridChart or updateRuneRealmChart, which
\* shows the loader of its series, has hidden it again by the time it ends,
\* on every path: the data arrive, the fetch throws, the chart is missing
C25_LoaderHiddenAtEnd ==
    [][\A id \in endingNow : ~loaders'[loaderOf(calls'[id].caller)]]_vars


(***************************************************************************)
(* What a task can see of a history between two synchronous calls          *)
(***************************************************************************)
\* the timestamps of a history, in order
timestampSeq(history) == [i \in 1..Len(history) |-> history[i].timestamp]

\* the history of k after the step is what the reconciliation makes of it
reconciledAfter(k) ==
    removeDuplicateDates(sortByTimestamp(historicalData'[k]), includesWeekly(k))
        = historicalData'[k]

\* both series of the combined chart hold, after the step, an entry for the
\* same timestamps
alignedAfter ==
    timestampSeq(historicalData'["wUSDCTransfer"])
        = timestampSeq(historicalData'["USDATransfer"])

\* C26: a history is updated within one synchronous call: a step that stores
\* fetched points under a series leaves them reconciled, no state lies
\* between the store and the reconciliation, and a step in which the
\* combined chart is updated replaces the histories of both its series, so
\* no state shows a history stored and not reconciled, or one series aligned
\* and the other not
C26_AtomicHistoryUpdates ==
    [][/\ \A k \in {"wARweeklyTransfer", "stargrid", "wARTotalSupply"} :
             historicalData'[k] # historicalData[k] => reconciledAfter(k)
       /\ \A k \in {"wUSDCTransfer", "USDATransfer"} :
             historicalData'[k] # historicalData[k] =>
                reconciledAfter(k) \/ alignedAfter]_vars

\* after two fetches both series of the combined chart hold the same
\* timestamps, two or more, and one of them a placeholder
C26_Witness ==
    /\ fetched = 2
    /\ Len(historicalData["wUSDCTransfer"]) >= 2
    /\ timestampSeq(historicalData["wUSDCTransfer"])
          = timestampSeq(historicalData["USDATransfer"])
    /\ \E i \in 1..Len(historicalData["USDATransfer"]) :
          historicalData["USDATransfer"][i].count = Null
    /\ \E i \in 1..Len(historicalData["USDATransfer"]) :
          historicalData["USDATransfer"][i].count # Null


(***************************************************************************)
(* The history entries the tooltips read                                   *)
(***************************************************************************)
\* the histories the tooltip callbacks of chart k index with dataIndex
tooltipReads(k) ==
    IF k = "wUSDCTransfer" THEN {"wUSDCTransfer", "USDATransfer"} ELSE {k}

\* the labels chart k makes of a timestamp: for the rune realm chart one per
\* time zone, and the one updateStandardChart gives it
labelsOf(k, ts) ==
    CASE k = "runeRealm" ->
            {formatMonthDay(ts, zone) : zone \in TimeZones} \cup {formatDate(ts)}
      [] k = "stargrid" -> {formatDateUTCWithLocalTime(ts)}
      [] OTHER -> {formatDate(ts)}

\* after the step every index of chart k has, in every history its tooltips
\* read, the entry its label was made from
tooltipsAlignedAfter(k) ==
    \A series \in tooltipReads(k) :
        \A i \in 1..Len(charts'[k].labels) :
            /\ i <= Len(historicalData'[series])
            /\ charts'[k].labels[i] \in labelsOf(k, historicalData'[series][i].timestamp)

\* the charts with tooltips that read the history store: the standard ones,
\* the combined one and the rune realm one
TooltipCharts == {"wARweeklyTransfer", "stargrid", "wUSDCTransfer", "runeRealm"}

\* C27: after any update of a standard, combined or rune realm chart, under
\* every time range, the entry historicalData[key][i] its tooltip callbacks
\* read for index i is the point plotted at index i: its timestamp is the
\* one labels[i] was made from
C27_TooltipIndexAligned ==
    [][\A k \in TooltipCharts \cap (DOMAIN charts \cap DOMAIN charts') :
          charts'[k] # charts[k] => tooltipsAlignedAfter(k)]_vars


(***************************************************************************)
(* Observations under repeated updates of the combined chart               *)
(***************************************************************************)
\* the points of a history that were observed: their count is not null
observedIn(history) ==
    {history[i] : i \in {j \in 1..Len(history) : history[j].count # Null}}

\* C28: under the time range 'all' and without a new fetch, a call of
\* updateChartTimeRange('wUSDCTransfer', 'all') loses no observation: every
\* point with a count that is not null held for wUSDCTransfer or
\* USDATransfer before the call is held, with its count, after it; no
\* placeholder of the alignment takes the place of an observed point in a
\* later reconciliation
C28_ObservationsKept ==
    [][(viewStep /\ becomes(updateChartTimeRange(state, "wUSDCTransfer", "all")))
          => \A k \in {"wUSDCTransfer", "USDATransfer"} :
                observedIn(historicalData[k]) \subseteq observedIn(historicalData'[k])]_vars


(***************************************************************************)
(* The loader while fetches of its series are under way                    *)
(***************************************************************************)
\* C29: the loader of a series is shown in every state in which a fetch made
\* for that series by updateStargridChart or updateRuneRealmChart is in
\* flight, also when two updates of one series overlap and the first ends
\* while the second is still in flight
C29_BusyWhileInFlight ==
    \A id \in inFlight :
        calls[id].caller \in ChartCallers => loaders[loaderOf(calls[id].caller)]


(***************************************************************************)
(* Requests in flight at a clearCache                                      *)
(***************************************************************************)
\* call id2, served from the cache, returns the data the request of the
\* earlier call id1 for the same key obtained
servedDataOf(id1, id2) ==
    /\ id1 < id2
    /\ calls[id1].key = calls[id2].key
    /\ calls[id1].served = "network"
    /\ calls[id2].served = "cache"
    /\ calls[id2].data = calls[id1].data

\* C30: once clearCache() has run no later call of a fetch function returns
\* data a request sent before the clearCache obtained, also when that
\* request was in flight at the clear and ended after it.  Every earlier
\* call for the key of the first call since the clear was made before the
\* clear, so that first call is not served the data of an earlier call.
C30_NoDataFromBeforeClear ==
    \A id2 \in entered :
        calls[id2].nextAfterClear =>
            \A id1 \in entered : ~servedDataOf(id1, id2)

=============================================================================
